---- MODULE Spec2Model ----
(***************************************************************************)
(* Model of the micropython-iot resilient link: the message-id generator   *)
(* and duplicate filter of iot/__init__.py and the client connection       *)
(* engine of iot/client.py, together with the peer it talks to.            *)
(*                                                                         *)
(* The client's coroutines run under a cooperative scheduler: runq is its  *)
(* queue of ready tasks, and one step of the model runs the task at the    *)
(* head from the point where it resumed up to its next await that yields.  *)
(* Timers, the network and the peer move on their own.  SpecMid and        *)
(* SpecWin exercise the generator and the filter alone; SpecQos, SpecPlain *)
(* SpecRx and SpecRun run the client with writers using qos, writers not   *)
(* using qos, a writing peer, and a failing network; SpecClose adds calls  *)
(* of Client.close.                                                        *)
(*                                                                         *)
(* The second half models the variant of the protocol whose lines start    *)
(* with a preheader in hexadecimal: the server of server.py (SpecGo: the   *)
(* handshakes, SpecSrvRx: what a Connection receives, SpecSrvTx: its       *)
(* write) and the write call of the client of client.py (SpecHc).          *)
(***************************************************************************)
EXTENDS Integers, Sequences, FiniteSets, TLC

(***************************************************************************)
(* Bounds of the model.                                                    *)
(***************************************************************************)
MaxGen == 300        \* values drawn from the generator in SpecMid
MaxWin == 130        \* mids presented in generator order in SpecWin
MaxAnyAt == 2        \* an out-of-order mid is presented only this early
MaxConn == 2         \* connection attempts of _run
MaxConnRun == 3      \* connection attempts of _run in SpecRun
MaxFail == 1         \* link failures
MaxTo == 1           \* expiries of the qos wait
MaxKa == 1           \* times the keepalive task comes due
MaxEagain == 1       \* sends that would block
MaxSrvMsgs == 2      \* Data frames written by the peer's application
MaxRetx == 1         \* retransmissions by the peer
MaxSrvKa == 1        \* keepalives the peer sends on one connection
MaxRefuse == 1       \* connection attempts that fail
MaxReboot == 1       \* restarts of the peer
MaxClose == 2        \* calls of Client.close
MaxSock == 3         \* sockets the server accepts
MaxNoId == 1         \* sockets whose first line never arrives
MaxReset == 1        \* connections to the server that break
MaxData == 2         \* lines a client writes to the server
MaxSrvTo == 1        \* receive timeouts of the server
MaxSka == 1          \* pauses of a Connection's keepalive that end
NSW == 2             \* calls of Connection.write by the application
LongHeader == 256    \* the length of a header that is too long
NHW == 3             \* calls of Client.write of client.py
MaxHcTo == 1         \* waits for an ACK that time out in client.py
NWire == 2           \* tasks that write in SpecWire
MaxPartial == 2      \* sends that write only a part of what is left
MaxBody == 65535     \* the longest body written in SpecLen
MaxTick == 8         \* ticks of the clock in SpecIdle
MaxInbox == 22       \* Data frames the peer's application writes in SpecInbox

NW == 3              \* the tasks App.start creates, each calling write once
QSize == 20          \* Queue(20), the size of Client._lineq
Timeout == 2         \* Client._to, in ticks of the clock of SpecIdle

(***************************************************************************)
(* Byte and bit arithmetic of the 32-byte bitmaps.                         *)
(***************************************************************************)
Pow2(n) == <<1, 2, 4, 8, 16, 32, 64, 128>>[n + 1]

\* byte & (1 << b)  is non-zero
TestBit(byte, b) == (byte \div Pow2(b)) % 2 = 1

\* byte | (1 << b)
OrBit(byte, b) == IF TestBit(byte, b) THEN byte ELSE byte + Pow2(b)

\* byte & ~(1 << b)
ClearBit(byte, b) == IF TestBit(byte, b) THEN byte - Pow2(b) ELSE byte

\* bytearray(32)
ByteArray32 == [i \in 0..31 |-> 0]

(***************************************************************************)
(* gmid: the message-id generator.  A generator object is the pair of     *)
(* "has yielded at least once" and the value of its local variable mid;    *)
(* gmid(g) is the generator after one more next(), which yields .mid.      *)
(***************************************************************************)
gmid_new == [started |-> FALSE, mid |-> 0]

gmid_nowrap(g) ==
    IF ~g.started THEN [started |-> TRUE, mid |-> 0]
    ELSE [started |-> TRUE, mid |-> (g.mid + 1) % 256]

gmid(g) ==
    IF ~g.started THEN [started |-> TRUE, mid |-> 0]
    ELSE LET m1 == (g.mid + 1) % 256
             m2 == IF m1 # 0 THEN m1 ELSE 1
         IN  [started |-> TRUE, mid |-> m2]

(***************************************************************************)
(* isnew: the duplicate filter.  isnew(mid, lst) is the pair of the value  *)
(* returned and the bitmap afterwards; mid = -1 clears the bitmap and      *)
(* returns None.                                                           *)
(***************************************************************************)
isnew_near(mid, lst) ==
    IF mid = -1 THEN [res |-> "None", lst |-> ByteArray32]
    ELSE LET idx == mid \div 8
             b   == mid % 8
             res == ~TestBit(lst[idx], b)
             l1  == [lst EXCEPT ![idx] = OrBit(lst[idx], b)]
             l2  == [l1 EXCEPT ![(idx + 8) % 32] = 0]
         IN  [res |-> res, lst |-> l2]

isnew(mid, lst) ==
    IF mid = -1 THEN [res |-> "None", lst |-> ByteArray32]
    ELSE LET idx == mid \div 8
             b   == mid % 8
             res == ~TestBit(lst[idx], b)
             l1  == [lst EXCEPT ![idx] = OrBit(lst[idx], b)]
             l2  == [l1 EXCEPT ![(idx + 16) % 32] = 0]
         IN  [res |-> res, lst |-> l2]

(***************************************************************************)
(* State.                                                                  *)
(***************************************************************************)
VARIABLES
    \* the Client object and the module-level state of iot
    evok,       \* Client._evok
    evfail,     \* Client._evfail
    eve,        \* ASetByte._eve, the "empty" event of _acks_pend
    evdis,      \* ASetByte._evdis, the "discard" event of _acks_pend
    acks_ba,    \* ASetByte._ba of _acks_pend
    s_lock,     \* Client._s_lock: the task holding it, or FREE
    lineq,      \* Client._lineq
    connects,   \* Client.connects
    sock,       \* Client._sock: "none", "open" or "closed"
    getmid,     \* client.getmid: the client's module-level generator
    rxlist,     \* the default bitmap of isnew, used by the client's reader
    \* the cooperative scheduler
    tk,         \* the live tasks: position and local variables of each
    runq,       \* tasks ready to run, in the order they will run
    wq,         \* tasks waiting on each event and on the lock, in order
    slp,        \* tasks sleeping on a timer
    \* the network and the peer
    link,       \* "up" while the TCP connection carries data, else "down"
    s2c,        \* lines the peer has written, on their way to the client
    rxbuf,      \* lines received on the client's socket, not yet read
    s_getmid,   \* the peer's generator of message ids
    s_newlist,  \* the peer's duplicate filter for this client
    s_conn,     \* the peer has read the client's id on this connection
    s_lines,    \* the lines the peer has handed to its application
    s_last,     \* the Data frame the peer sent last
    \* history
    cnt,        \* connection attempts made and _sendack tasks created; the
                \* connection a line was last read on, the connection
                \* whose failure _run handled last, the number of
                \* connections a line was read on and of QueueFull raised,
                \* the reader's idle time when _readline last timed out
                \* and the Data frames the reader has handled as ACKs; the
                \* frame partly written to the socket
    bud,        \* how often each bounded event may still happen
    rxmids,     \* the mids of the Data frames the reader has handled
    got,        \* the values returned by Client.readline
    ackd,       \* writers whose mid an ACK discarded while it was pending
    gidx,       \* number of values drawn from getmid in SpecMid / SpecWin
    gprev,      \* the value drawn before the latest one (-1: none)
    wk,         \* the mid whose acceptance is followed (-1: none)
    wcnt,       \* distinct other mids accepted since wk was accepted
    wopp,       \* a mid of the byte 16 ahead of wk's has been presented
    wany,       \* an out-of-order mid has been presented
    \* the server of the protocol with a preheader (server.py) and the
    \* write call of its client (client.py)
    _conns,     \* Connection._conns: client id -> the Connection's fields
    ssock,      \* the sockets the server has accepted, by number
    stk,        \* the server's tasks: position and local variables
    sbud,       \* how often each bounded server event may still happen
    shist,      \* what the server's connections and callers have seen
    hc          \* the client of client.py: write's state and its callers

mainVars == <<evok, evfail, eve, evdis, acks_ba, s_lock, lineq, connects, sock,
              tk, runq, wq, slp, link, s2c, rxbuf, s_newlist, s_conn, s_lines,
              s_last, cnt, bud, rxmids, got, ackd>>

histVars == <<gidx, gprev, wk, wcnt, wopp, wany>>

srvVars == <<_conns, ssock, stk, sbud, shist>>

cliVars == <<mainVars, getmid, rxlist, s_getmid, histVars>>

vars == <<cliVars, srvVars, hc>>

\* The state as one record, so that a handler is a composition of steps.
Cur ==
    [evok |-> evok, evfail |-> evfail, eve |-> eve, evdis |-> evdis,
     acks_ba |-> acks_ba, s_lock |-> s_lock, lineq |-> lineq,
     connects |-> connects, sock |-> sock, getmid |-> getmid,
     rxlist |-> rxlist, tk |-> tk, runq |-> runq, wq |-> wq, slp |-> slp,
     link |-> link, s2c |-> s2c, rxbuf |-> rxbuf, s_getmid |-> s_getmid,
     s_newlist |-> s_newlist, s_conn |-> s_conn, s_lines |-> s_lines,
     s_last |-> s_last, cnt |-> cnt, bud |-> bud, rxmids |-> rxmids,
     got |-> got, ackd |-> ackd]

Becomes(s) ==
    /\ evok' = s.evok /\ evfail' = s.evfail /\ eve' = s.eve
    /\ evdis' = s.evdis /\ acks_ba' = s.acks_ba /\ s_lock' = s.s_lock
    /\ lineq' = s.lineq /\ connects' = s.connects /\ sock' = s.sock
    /\ getmid' = s.getmid /\ rxlist' = s.rxlist /\ tk' = s.tk
    /\ runq' = s.runq /\ wq' = s.wq /\ slp' = s.slp /\ link' = s.link
    /\ s2c' = s.s2c /\ rxbuf' = s.rxbuf /\ s_getmid' = s.s_getmid
    /\ s_newlist' = s.s_newlist /\ s_conn' = s.s_conn
    /\ s_lines' = s.s_lines /\ s_last' = s.s_last /\ cnt' = s.cnt
    /\ bud' = s.bud /\ rxmids' = s.rxmids
    /\ got' = s.got /\ ackd' = s.ackd
    /\ UNCHANGED <<histVars, srvVars, hc>>

(***************************************************************************)
(* Tasks.  A task is named by its kind and a number: the _run task, the    *)
(* reader and keepalive tasks of connection n, the _sendack task of the    *)
(* n-th Data frame received, and application task n calling write.         *)
(***************************************************************************)
RUN == <<"run", 0>>
RD(n) == <<"rd", n>>
KA(n) == <<"ka", n>>
ACK(n) == <<"ack", n>>
W(n) == <<"w", n>>
AW == <<"aw", 0>>
FREE == <<"free", 0>>
Writers == {W(n) : n \in 1..NW}

\* to, idle and polled are the reader's: its deadline, the time since its
\* "start" and the longest such time at which it found nothing and went on
Local(pc) == [pc |-> pc, mid |-> -1, qos |-> FALSE, wait |-> FALSE,
              slept |-> FALSE, init |-> TRUE, to |-> 2 * Timeout,
              idle |-> 0, polled |-> 0]

\* Frames on the wire.  The legacy frame is two hex digits of mid, the body
\* and a newline; body 0 stands for the empty body (a line of length 3).
HS == [k |-> "hs", mid |-> 0, body |-> 0]
KAL == [k |-> "ka", mid |-> 0, body |-> 0]
Msg(m, b) == [k |-> "msg", mid |-> m, body |-> b]
\* A Data frame with an empty body: on the wire the same three characters
\* as an ACK; k only records that the peer wrote it as Data.
Empty(m) == [k |-> "empty", mid |-> m, body |-> 0]

InSeq(x, q) == \E i \in 1..Len(q) : q[i] = x

Without(q, x) == SelectSeq(q, LAMBDA y : y # x)

Pop(s) == [s EXCEPT !.runq = Tail(@)]

\* The running task suspends on event e (or the lock) at position pc.
WaitOn(s, t, e, pc) == [s EXCEPT !.wq[e] = Append(@, t), !.tk[t].pc = pc]

\* The running task yields (sleep_ms(0)) or a new task is created.
Requeue(s, t, pc) == [s EXCEPT !.runq = Append(@, t), !.tk[t].pc = pc]

Sleep(s, t, pc) == [s EXCEPT !.slp = @ \cup {t}, !.tk[t].pc = pc]

Spawn(s, t, pc) == [s EXCEPT !.runq = Append(@, t),
                             !.tk = [x \in DOMAIN @ \cup {t} |->
                                       IF x = t THEN Local(pc) ELSE @[x]]]

Finish(s, t) == [s EXCEPT !.tk = [x \in DOMAIN @ \ {t} |-> @[x]]]

\* Event.set(): every waiting task becomes ready, in waiting order.
EvSet(s, e) == [s EXCEPT ![e] = TRUE, !.runq = @ \o s.wq[e], !.wq[e] = <<>>]

\* Lock.release(): the lock passes to the first waiting task, if any.
Release(s) ==
    IF s.wq.lock # <<>>
    THEN [s EXCEPT !.s_lock = Head(s.wq.lock),
                   !.runq = Append(@, Head(s.wq.lock)),
                   !.wq.lock = Tail(@)]
    ELSE [s EXCEPT !.s_lock = FREE]

\* Task.cancel(): the task leaves whatever it waits on and is scheduled to
\* take the CancelledError.
Cancel(s, t) ==
    IF t \notin DOMAIN s.tk \/ s.tk[t].pc = "cancelled" THEN s
    ELSE [s EXCEPT !.tk[t].pc = "cancelled",
                   !.wq = [e \in DOMAIN @ |-> Without(@[e], t)],
                   !.slp = @ \ {t},
                   !.runq = IF InSeq(t, @) THEN @ ELSE Append(@, t)]

(***************************************************************************)
(* ASetByte, the pending-ACK set.                                          *)
(***************************************************************************)
ASetByte_bool(ba) == \E j \in 0..31 : ba[j] # 0

ASetByte_contains(ba, i) == TestBit(ba[i \div 8], i % 8)

ASetByte_add(s, i) ==
    [s EXCEPT !.eve = FALSE,
              !.acks_ba = [@ EXCEPT ![i \div 8] = OrBit(@, i % 8)]]

\* a discard whose event wakes only the first waiting task
ASetByte_discard_first(s, i) ==
    LET s1 == [s EXCEPT !.acks_ba = [@ EXCEPT ![i \div 8] = ClearBit(@, i % 8)]]
        s2 == IF s1.wq.evdis = <<>> THEN [s1 EXCEPT !.evdis = TRUE]
              ELSE [s1 EXCEPT !.evdis = TRUE,
                              !.runq = Append(@, Head(s1.wq.evdis)),
                              !.wq.evdis = Tail(@)]
    IN  IF ~ASetByte_bool(s2.acks_ba) THEN EvSet(s2, "eve") ELSE s2

ASetByte_discard(s, i) ==
    LET s1 == [s EXCEPT !.acks_ba = [@ EXCEPT ![i \div 8] = ClearBit(@, i % 8)]]
        s2 == EvSet(s1, "evdis")
    IN  IF ~ASetByte_bool(s2.acks_ba) THEN EvSet(s2, "eve") ELSE s2

(***************************************************************************)
(* Client._send.  The socket decides what a send does: "ok" writes the     *)
(* whole line, "lost" accepts it into a connection that no longer carries  *)
(* data, "eagain" would block (sleep 100 ms holding the lock and retry),   *)
(* "err" raises another OSError, "partial" writes a part of it (sleep      *)
(* 20 ms holding the lock and send the rest), and "late" writes the whole  *)
(* line but only after more than the timeout, which can happen once the    *)
(* send has slept.  The result is the state and what the caller sees: "T", "F", or  *)
(* "Y" when the task has suspended inside _send.                           *)
(***************************************************************************)
SendOutcomes(s, t) ==
    IF s.sock # "open" THEN {"err"}
    ELSE (IF s.link = "up" THEN {"ok"} ELSE {"lost", "err"})
         \cup (IF s.bud.eagain > 0 THEN {"eagain"} ELSE {})
         \cup (IF s.bud.partial > 0 /\ t[1] # "ka" THEN {"partial"} ELSE {})
         \cup (IF s.tk[t].slept THEN {"late"} ELSE {})

\* Task t writes bytes of its frame to the socket; done says whether the
\* frame is then complete.  cnt.inframe is the task whose frame is partly
\* written, cnt.mixed records bytes written into another task's frame.
\* cnt.hsent is the connection on which _run has begun to write the
\* client id, cnt.early records bytes another task wrote before that.
Written(s, t, done) ==
    [s EXCEPT !.cnt.mixed = @ \/ s.cnt.inframe \notin {FREE, t},
              !.cnt.inframe = IF done THEN FREE ELSE t,
              !.cnt.early = @ \/ (t # RUN /\ s.cnt.hsent # s.cnt.conn),
              !.cnt.hsent = IF t = RUN THEN s.cnt.conn ELSE @]

\* the send of task t has failed
Failed(s, t) ==
    [s EXCEPT !.cnt.inframe = IF @ = t THEN FREE ELSE @]

\* The peer reads a line the client wrote: the first line of a connection is
\* the client's id; a Data frame is acknowledged and, if new, handed to the
\* peer's application.
Srv_process(s, f) ==
    IF ~s.s_conn THEN [s EXCEPT !.s_conn = TRUE, !.bud.ska = MaxSrvKa]
    ELSE IF f.k # "msg" \/ f.body = 0 THEN s
    ELSE LET l0 == IF f.mid = 0 THEN isnew(-1, s.s_newlist).lst
                   ELSE s.s_newlist
             r  == isnew(f.mid, l0)
             s1 == [s EXCEPT !.s_newlist = r.lst,
                             !.s2c = Append(@, Msg(f.mid, 0))]
         IN  IF r.res THEN [s1 EXCEPT !.s_lines = Append(@, f.body)] ELSE s1

\* A line written to the socket reaches the peer while the link is up.
Wire(s, f) == IF s.link = "up" THEN Srv_process(s, f) ELSE s

\* The body of "async with self._s_lock", entered holding the lock
_send_locked(s, t, f, o) ==
    CASE o = "ok" ->
           [s |-> Release([Written(Wire(s, f), t, TRUE)
                             EXCEPT !.tk[t].slept = FALSE]), r |-> "T"]
      [] o = "lost" ->
           [s |-> Release([Written(s, t, TRUE)
                             EXCEPT !.tk[t].slept = FALSE]), r |-> "T"]
      [] o = "eagain" ->
           [s |-> [Sleep(s, t, "send") EXCEPT !.tk[t].slept = TRUE,
                                              !.bud.eagain = @ - 1],
            r |-> "Y"]
      [] o = "partial" ->
           [s |-> [Sleep(Written(s, t, FALSE), t, "send")
                     EXCEPT !.tk[t].slept = TRUE, !.bud.partial = @ - 1],
            r |-> "Y"]
      [] o = "err" ->
           [s |-> Release([EvSet(Failed(s, t), "evfail")
                             EXCEPT !.tk[t].slept = FALSE]),
            r |-> "F"]
      [] o = "late" ->
           [s |-> Release([EvSet(Failed(Written(Wire(s, f), t, TRUE), t),
                                 "evfail")
                             EXCEPT !.tk[t].slept = FALSE]),
            r |-> "F"]

\* a _send without the lock
_send_unlocked(s, t, f, o) == _send_locked(s, t, f, o)

_send(s, t, f, o) ==
    IF s.s_lock = FREE
    THEN _send_locked([s EXCEPT !.s_lock = t], t, f, o)
    ELSE [s |-> WaitOn(s, t, "lock", "send"), r |-> "Y"]

(***************************************************************************)
(* Client.write, Client._write and Client._do_qos, run by application      *)
(* task t.  The body written by W(n) is n.                                 *)
(***************************************************************************)
WFrame(s, t) == Msg(s.tk[t].mid, t[2])

\* _do_qos from the top of its loop: wait out an outage, then start
\* wait_for_ms(has_not(mid)), which first runs on the next pass.
_do_qos(s, t) ==
    IF ~s.evok THEN WaitOn(s, t, "evok", "q_ok") ELSE Requeue(s, t, "q_chk")

\* a has_not that returns without testing the set
has_not_untested(s, t) == [s EXCEPT !.tk[t].pc = "done"]

\* ASetByte.has_not(mid) from its test; when it returns, _do_qos and write
\* return.
has_not(s, t) ==
    IF ~ASetByte_contains(s.acks_ba, s.tk[t].mid)
    THEN [s EXCEPT !.tk[t].pc = "done"]
    ELSE WaitOn([s EXCEPT !.evdis = FALSE], t, "evdis", "q_wait")

\* what _write does with the result of _send
_write_sent(x, t) ==
    CASE x.r = "Y" -> x.s
      [] x.r = "T" -> IF x.s.tk[t].qos THEN _do_qos(x.s, t)
                      ELSE [x.s EXCEPT !.tk[t].pc = "done"]
      [] x.r = "F" -> Requeue(x.s, t, "w_assert")

\* _write from the top of its loop
_write(s, t, o) ==
    IF ~s.evok THEN WaitOn(s, t, "evok", "w_ok")
    ELSE _write_sent(_send(s, t, WFrame(s, t), o), t)

\* write after the wait for the empty set: draw the mid, add it, send
write_add(s, t, o) ==
    LET g  == gmid(s.getmid)
        s1 == [s EXCEPT !.getmid = g, !.tk[t].mid = g.mid]
    IN  _write(ASetByte_add(s1, g.mid), t, o)

write(s, t, o) ==
    IF s.tk[t].qos /\ s.tk[t].wait /\ ~s.eve
    THEN WaitOn(s, t, "eve", "w_empty")
    ELSE write_add(s, t, o)

Running(t, pcs) ==
    /\ runq # <<>>
    /\ Head(runq) = t
    /\ tk[t].pc \in pcs

\* The application calls write: tasks enter in the order of their numbers.
AppWrite(n, q, w) ==
    /\ tk[W(n)].pc = "idle"
    /\ IF n = 1 THEN TRUE ELSE tk[W(n - 1)].pc # "idle"
    /\ Becomes([Requeue(Cur, W(n), "write")
                  EXCEPT !.tk[W(n)].qos = q, !.tk[W(n)].wait = w])

Write_call(t) ==
    /\ Running(t, {"write"})
    /\ \E o \in SendOutcomes(Cur, t) : Becomes(write(Pop(Cur), t, o))

\* resumed by the "empty" event
Write_proceed(t) ==
    /\ Running(t, {"w_empty"})
    /\ \E o \in SendOutcomes(Cur, t) : Becomes(write_add(Pop(Cur), t, o))

\* resumed by _evok inside _write, or inside _send holding the lock
Write_send(t) ==
    /\ Running(t, {"w_ok", "send"})
    /\ \E o \in SendOutcomes(Cur, t) :
          LET s == Pop(Cur)
              x == IF tk[t].pc = "send"
                   THEN _send_locked(s, t, WFrame(s, t), o)
                   ELSE _send(s, t, WFrame(s, t), o)
          IN  Becomes(_write_sent(x, t))

\* after sleep_ms(0) following a failed send: the assertion, then the loop
Write_assert(t) ==
    /\ Running(t, {"w_assert"})
    /\ LET s == Pop(Cur) IN
       IF s.evok THEN Becomes([s EXCEPT !.tk[t].pc = "crashed"])
       ELSE Becomes(WaitOn(s, t, "evok", "w_ok"))

Qos_wait(t) ==
    /\ Running(t, {"q_ok", "q_chk", "q_wait"})
    /\ LET s == Pop(Cur) IN
       CASE tk[t].pc = "q_ok" -> Becomes(Requeue(s, t, "q_chk"))
         [] tk[t].pc = "q_chk" -> Becomes(has_not(s, t))
         [] tk[t].pc = "q_wait" ->
              Becomes(has_not([s EXCEPT !.evdis = FALSE], t))

\* wait_for_ms expires: TimeoutError
QosTimeout(t) ==
    /\ t \in Writers
    /\ tk[t].pc = "q_wait"
    /\ InSeq(t, wq.evdis)
    /\ bud.to > 0
    /\ Becomes([Requeue(Cur, t, "q_to")
                  EXCEPT !.wq.evdis = Without(@, t), !.bud.to = @ - 1])

\* the except branch of _do_qos: _write(line); _write_sent goes round the loop
Qos_resend(t) ==
    /\ Running(t, {"q_to"})
    /\ \E o \in SendOutcomes(Cur, t) : Becomes(_write(Pop(Cur), t, o))

(***************************************************************************)
(* Client._reader with Client._readline, and Client._sendack.  One pass    *)
(* of the reader handles every line the socket holds and then yields.      *)
(***************************************************************************)
\* a reader that ends without setting the failure event
_reader_fail_silent(s, t) == Finish(s, t)

_reader_fail(s, t) == Finish(EvSet(s, "evfail"), t)

\* writers whose pending mid an ACK for m discards
Acked(s, m) ==
    {w \in Writers \cap DOMAIN s.tk :
                     /\ s.tk[w].mid = m
                     /\ s.tk[w].pc \notin {"idle", "write", "w_empty", "done"}
                     /\ ASetByte_contains(s.acks_ba, m)}

\* a reader that never clears the filter
_reader_filter_keep(mid, lst) == lst

\* "if not mid: isnew(-1)": the filter the reader then tests the mid against
_reader_filter(mid, lst) == IF mid = 0 THEN isnew(-1, lst).lst ELSE lst

\* put_nowait on the Queue(20) raises QueueFull
QueueFull(s) == Len(s.lineq) >= QSize

RECURSIVE _reader(_, _, _)
_reader(s, t, o) ==
    IF s.sock # "open" THEN _reader_fail(s, t)
    ELSE IF s.rxbuf = <<>>
    THEN IF o = "fail"
         THEN _reader_fail([s EXCEPT !.cnt.expired = s.tk[t].idle], t)
         ELSE Requeue([s EXCEPT !.tk[t].polled =
                                   IF s.tk[t].idle > @ THEN s.tk[t].idle
                                   ELSE @], t, "rd")
    ELSE
      LET f  == Head(s.rxbuf)
          s1 == EvSet([s EXCEPT !.rxbuf = Tail(@), !.cnt.seen = s.cnt.conn,
                                !.tk[t].idle = 0,
                                !.cnt.active = IF s.cnt.seen = s.cnt.conn
                                               THEN @ ELSE @ + 1],
                      "evok")
      IN
      IF f.k \notin {"msg", "empty"} THEN _reader(s1, t, o)
      ELSE IF f.body = 0
      THEN _reader(ASetByte_discard(
                     [s1 EXCEPT !.ackd = @ \cup Acked(s1, f.mid),
                                !.cnt.asack = IF f.k = "empty" THEN @ + 1
                                              ELSE @,
                                !.tk[t].to = Timeout], f.mid), t, o)
      ELSE
        LET n  == s1.cnt.ack + 1
            s2 == [Spawn(s1, ACK(n), "ack") EXCEPT !.cnt.ack = n]
            s3 == [s2 EXCEPT !.tk[ACK(n)].mid = f.mid,
                             !.tk[t].to = Timeout,
                             !.rxmids = Append(@, f.mid)]
            r  == isnew(f.mid, _reader_filter(f.mid, s3.rxlist))
            s4 == [s3 EXCEPT !.rxlist = r.lst]
            s5 == IF r.res THEN [s4 EXCEPT !.lineq = Append(@, f.body)] ELSE s4
            s6 == IF s5.tk[t].mid = s5.connects
                  THEN [s5 EXCEPT !.connects = @ + 1] ELSE s5
        IN  IF r.res /\ QueueFull(s4)
            THEN _reader_fail([s4 EXCEPT !.cnt.full = @ + 1], t)
            ELSE _reader(s6, t, o)

Reader_step(t) ==
    /\ Running(t, {"rd"})
    /\ t[1] = "rd"
    /\ \E o \in {"poll"} \cup (IF link = "down" THEN {"fail"} ELSE {}) :
          Becomes(_reader(Pop(Cur), t, o))

\* The reader under a clock: when the socket holds nothing, _readline
\* raises OSError if more than its deadline has passed since "start".
Reader_timed(t) ==
    /\ Running(t, {"rd"})
    /\ t[1] = "rd"
    /\ Becomes(_reader(Pop(Cur), t,
                       IF rxbuf = <<>> /\ tk[t].idle > tk[t].to THEN "fail"
                       ELSE "poll"))

\* The clock advances by one tick.  A tick is long: it passes only while
\* no task but a polling reader is ready to run, and not during the pause
\* of 50 ms before the handshake.
Tick ==
    /\ bud.tick > 0
    /\ \A i \in 1..Len(runq) : runq[i][1] = "rd"
    /\ ~(RUN \in slp /\ tk[RUN].pc = "hs")
    /\ Becomes([Cur EXCEPT !.bud.tick = @ - 1,
                           !.tk = [u \in DOMAIN @ |->
                                     IF u[1] = "rd"
                                     THEN [@[u] EXCEPT !.idle = @ + 1]
                                     ELSE @[u]]])

\* a _sendack that first waits for the pending-ACK set to be empty
_sendack_drained(s, t, o) ==
    IF s.tk[t].pc = "ack" /\ ~s.eve THEN WaitOn(s, t, "eve", "ack")
    ELSE LET f == Msg(s.tk[t].mid, 0)
             x == IF s.tk[t].pc = "send" THEN _send_locked(s, t, f, o)
                  ELSE _send(s, t, f, o)
         IN  IF x.r = "Y" THEN x.s ELSE Finish(x.s, t)

\* cnt.acks holds the numbers of the _sendack tasks that wrote their ACK
_sendack(s, t, o) ==
    LET f == Msg(s.tk[t].mid, 0)
        x == IF s.tk[t].pc = "send" THEN _send_locked(s, t, f, o)
             ELSE _send(s, t, f, o)
    IN  IF x.r = "Y" THEN x.s
        ELSE Finish([x.s EXCEPT !.cnt.acks = IF x.r = "T" THEN @ \cup {t[2]}
                                              ELSE @], t)

Ack_step(t) ==
    /\ Running(t, {"ack", "send"})
    /\ t[1] = "ack"
    /\ \E o \in SendOutcomes(Cur, t) : Becomes(_sendack(Pop(Cur), t, o))

\* Client.__iter__, run by the application task that awaits the client:
\* Event.wait returns at once when the event is set, and else suspends the
\* task until Event.set makes it ready.
__iter__(s, t) ==
    IF s.tk[t].pc = "aw_call" /\ ~s.evok THEN WaitOn(s, t, "evok", "await")
    ELSE [s EXCEPT !.tk[t].pc = "connected"]

AppAwait ==
    /\ AW \in DOMAIN tk
    /\ tk[AW].pc = "idle"
    /\ Becomes(Requeue(Cur, AW, "aw_call"))

Await_step ==
    /\ Running(AW, {"aw_call", "await"})
    /\ Becomes(__iter__(Pop(Cur), AW))

\* Client.readline, called by the application
readline ==
    /\ lineq # <<>>
    /\ Becomes([Cur EXCEPT !.lineq = Tail(@), !.got = Append(@, Head(lineq))])

(***************************************************************************)
(* Client._keepalive.                                                      *)
(***************************************************************************)
_keepalive(s, t, o) ==
    IF s.tk[t].pc = "ka" THEN Sleep(s, t, "ka_due")
    ELSE LET x == IF s.tk[t].pc = "send" THEN _send_locked(s, t, KAL, o)
                  ELSE _send(s, t, KAL, o)
         IN  IF x.r = "Y" THEN x.s ELSE Sleep(x.s, t, "ka_due")

Ka_step(t) ==
    /\ Running(t, {"ka", "ka_due", "send"})
    /\ t[1] = "ka"
    /\ \E o \in SendOutcomes(Cur, t) : Becomes(_keepalive(Pop(Cur), t, o))

\* A cancelled task takes the CancelledError: "async with" releases the
\* lock if the task holds it, and the task ends.
Task_cancelled(t) ==
    /\ Running(t, {"cancelled"})
    /\ LET s == Pop(Cur) IN
       Becomes(Finish(IF s.s_lock = t THEN Release(s) ELSE s, t))

(***************************************************************************)
(* Client._run.                                                            *)
(***************************************************************************)
\* the finally clause: init = False, _close(), the pause of 2 * timeout
_run_finally(s, pc) ==
    LET s1 == [s EXCEPT !.tk[RUN].init = FALSE,
                        !.cnt.handled = s.cnt.conn,
                        !.sock = IF @ = "none" THEN @ ELSE "closed",
                        !.link = "down", !.s2c = <<>>, !.rxbuf = <<>>]
    IN  Sleep(s1, RUN, pc)

\* a _run that calls bad_server on every failed attempt
_run_failed_any(s) == Requeue(s, RUN, "badsrv")

\* a failed first attempt: bad_server() after its sleep(0); later: finally
_run_failed(s) ==
    IF s.tk[RUN].init THEN Requeue(s, RUN, "badsrv")
    ELSE _run_finally(s, "connect")

\* from "await self._evfail.wait()" on, once the event is set
_run_teardown(s) ==
    LET n  == s.cnt.conn
        s1 == [s EXCEPT !.evok = FALSE, !.cnt.handled = n]
    IN  Requeue(Cancel(Cancel(s1, RD(n)), KA(n)), RUN, "td")

\* after _send(self._my_id)
_run_sent(x) ==
    CASE x.r = "Y" -> x.s
      [] x.r = "T" ->
           LET s1 == Spawn(x.s, KA(x.s.cnt.conn), "ka")
           IN  IF s1.evfail THEN _run_teardown(s1)
               ELSE WaitOn(s1, RUN, "evfail", "active")
      [] x.r = "F" -> _run_failed(x.s)

\* the top of the while loop: socket(), _evfail.clear(), connect
_run_connect(s, c) ==
    LET n  == s.cnt.conn + 1
        s1 == [s EXCEPT !.cnt.conn = n, !.cnt.inframe = FREE,
                        !.bud.conn = @ - 1, !.sock = "open",
                        !.evfail = FALSE, !.link = "down", !.s2c = <<>>,
                        !.rxbuf = <<>>,
                        !.bud.refuse = IF c = "ok" THEN @ ELSE @ - 1]
    IN  CASE c = "ok" ->
               \* the reader's local c = self.connects is kept in its mid
               LET s2 == Spawn([s1 EXCEPT !.link = "up", !.s_conn = FALSE],
                               RD(n), "rd")
               IN  Sleep([s2 EXCEPT !.tk[RD(n)].mid = s.connects], RUN, "hs")
          [] c = "refused" -> _run_failed(s1)
          [] c = "oserr" -> _run_finally(s1, "connect")

Run_start ==
    /\ Running(RUN, {"start"})
    /\ Becomes(Sleep(Pop(Cur), RUN, "connect"))

Run_connect ==
    /\ Running(RUN, {"connect"})
    /\ \E c \in {"ok"} \cup (IF bud.refuse > 0 THEN {"refused", "oserr"}
                                                ELSE {}) :
          Becomes(_run_connect(Pop(Cur), c))

Run_handshake ==
    /\ Running(RUN, {"hs", "send"})
    /\ \E o \in SendOutcomes(Cur, RUN) :
          LET s == Pop(Cur)
              x == IF tk[RUN].pc = "send" THEN _send_locked(s, RUN, HS, o)
                   ELSE _send(s, RUN, HS, o)
          IN  Becomes(_run_sent(x))

\* bad_server: the default raises OSError, an override may return
Run_bad_server ==
    /\ Running(RUN, {"badsrv"})
    /\ \E b \in {"dying", "connect"} : Becomes(_run_finally(Pop(Cur), b))

Run_teardown ==
    /\ Running(RUN, {"active"})
    /\ Becomes(_run_teardown(Pop(Cur)))

Run_finally ==
    /\ Running(RUN, {"td"})
    /\ Becomes(_run_finally(Pop(Cur), "connect"))

\* the exception of bad_server leaves _run after the finally clause
Run_die ==
    /\ Running(RUN, {"dying"})
    /\ Becomes([Pop(Cur) EXCEPT !.tk[RUN].pc = "dead"])

\* Client.close, called by the application: _close() closes the socket if
\* there is one; the tasks are left as they are.
Client_close(s) ==
    [s EXCEPT !.sock = IF @ = "none" THEN @ ELSE "closed",
              !.link = "down", !.s2c = <<>>, !.rxbuf = <<>>,
              !.cnt.close = @ + 1, !.bud.close = @ - 1]

Close_call ==
    /\ bud.close > 0
    /\ Becomes(Client_close(Cur))

\* A timer expires: the sleeping task becomes ready.
Wake(t) ==
    /\ t \in slp
    /\ t[1] = "ka" => bud.ka > 0
    /\ (t = RUN /\ tk[t].pc = "connect") => bud.conn > 0
    /\ Becomes([Cur EXCEPT !.slp = @ \ {t}, !.runq = Append(@, t),
                           !.bud.ka = IF t[1] = "ka" THEN @ - 1 ELSE @])

\* A timer expires, short pauses before long ones: the pause of 2 * timeout
\* after the socket was closed ends only when every ready task has run and
\* no send is in its pause of 20 or 100 ms or waits for the lock.
Wake_timed(t) ==
    /\ (t = RUN /\ tk[t].pc = "connect" /\ sock = "closed") =>
          /\ runq = <<>>
          /\ wq.lock = <<>>
          /\ \A u \in slp : tk[u].pc # "send"
    /\ Wake(t)

(***************************************************************************)
(* The network and the peer.                                               *)
(***************************************************************************)
\* A line on its way reaches the client's socket.
Deliver ==
    /\ link = "up"
    /\ s2c # <<>>
    /\ Becomes([Cur EXCEPT !.s2c = Tail(@), !.rxbuf = Append(@, Head(s2c))])

\* The link stops carrying data; the lines on their way are lost.
LinkFail ==
    /\ link = "up"
    /\ bud.fail > 0
    /\ Becomes([Cur EXCEPT !.link = "down", !.bud.fail = @ - 1,
                           !.s2c = <<>>])

\* The peer's application writes a line.
SrvWrite ==
    /\ link = "up"
    /\ s_conn
    /\ bud.srv > 0
    /\ LET g == gmid(s_getmid)
           f == Msg(g.mid, cnt.srv + 1)
       IN  Becomes([Cur EXCEPT !.s_getmid = g, !.s2c = Append(@, f),
                               !.s_last = f, !.bud.srv = @ - 1,
                               !.cnt.srv = @ + 1])

\* The peer's application writes an empty line.
SrvWriteEmpty ==
    /\ link = "up"
    /\ s_conn
    /\ bud.srv > 0
    /\ LET g == gmid(s_getmid)
           f == Empty(g.mid)
       IN  Becomes([Cur EXCEPT !.s_getmid = g, !.s2c = Append(@, f),
                               !.s_last = f, !.bud.srv = @ - 1,
                               !.cnt.srv = @ + 1])

\* The peer has seen no ACK in time and sends its last line again.
SrvRetransmit ==
    /\ link = "up"
    /\ s_conn
    /\ s_last.k = "msg"
    /\ bud.retx > 0
    /\ Becomes([Cur EXCEPT !.s2c = Append(@, s_last), !.bud.retx = @ - 1])

SrvKeepalive ==
    /\ link = "up"
    /\ s_conn
    /\ bud.ska > 0
    /\ Becomes([Cur EXCEPT !.s2c = Append(@, KAL), !.bud.ska = @ - 1])

\* The peer restarts: its generator and its filter start afresh.
SrvReboot ==
    /\ bud.reboot > 0
    /\ Becomes([Cur EXCEPT !.link = "down", !.s_getmid = gmid_new,
                           !.s2c = <<>>,
                           !.s_newlist = ByteArray32, !.s_conn = FALSE,
                           !.s_last = HS, !.bud.reboot = @ - 1])

(***************************************************************************)
(* Spec: the client after construction, its applications and its peer.     *)
(***************************************************************************)
NoBudget == [eagain |-> 0, fail |-> 0, conn |-> 0, to |-> 0, ka |-> 0,
             srv |-> 0, retx |-> 0, ska |-> 0, refuse |-> 0, reboot |-> 0,
             close |-> 0, tick |-> 0, partial |-> 0]

\* The state after Client.__init__: _run is scheduled, nothing else has run.
\* ws are the application tasks that will call write, b the budgets.
mainInit(ws, b) ==
    /\ evok = FALSE /\ evfail = FALSE /\ eve = TRUE /\ evdis = FALSE
    /\ acks_ba = ByteArray32
    /\ s_lock = FREE
    /\ lineq = <<>>
    /\ connects = 0
    /\ sock = "none"
    /\ tk = [t \in {RUN} \cup ws |->
                IF t = RUN THEN Local("start") ELSE Local("idle")]
    /\ runq = <<RUN>>
    /\ wq = [evok |-> <<>>, evfail |-> <<>>, eve |-> <<>>, evdis |-> <<>>,
             lock |-> <<>>]
    /\ slp = {}
    /\ link = "down"
    /\ s2c = <<>> /\ rxbuf = <<>>
    /\ s_newlist = ByteArray32
    /\ s_conn = FALSE
    /\ s_lines = <<>>
    /\ s_last = HS
    /\ cnt = [conn |-> 0, ack |-> 0, srv |-> 0, close |-> 0, seen |-> 0,
              handled |-> 0, active |-> 0, full |-> 0, expired |-> 0,
              asack |-> 0, inframe |-> FREE, mixed |-> FALSE,
              hsent |-> 0, early |-> FALSE, acks |-> {}]
    /\ bud = b
    /\ rxmids = <<>>
    /\ got = <<>>
    /\ ackd = {}

GenStates == {gmid_new} \cup {[started |-> TRUE, mid |-> m] : m \in 0..255}

\* The server of server.py and the client of client.py are not running.
srvIdle ==
    /\ _conns = <<>> /\ ssock = <<>> /\ stk = <<>> /\ sbud = <<>>
    /\ shist = <<>> /\ hc = <<>>

histInit ==
    /\ gidx = 0
    /\ gprev = -1
    /\ wk = -1
    /\ wcnt = 0
    /\ wopp = FALSE
    /\ wany = FALSE

(***************************************************************************)
(* SpecMid: the generator on its own, drawn from MaxGen times.             *)
(***************************************************************************)
InitMid ==
    /\ srvIdle
    /\ mainInit({}, NoBudget)
    /\ getmid = gmid_new
    /\ rxlist = ByteArray32
    /\ s_getmid = gmid_new
    /\ histInit

GenNext ==
    /\ gidx < MaxGen
    /\ getmid' = gmid(getmid)
    /\ gidx' = gidx + 1
    /\ gprev' = IF getmid.started THEN getmid.mid ELSE -1
    /\ UNCHANGED <<srvVars, hc, mainVars, rxlist, s_getmid, wk, wcnt, wopp, wany>>

NextMid == GenNext

SpecMid == InitMid /\ [][NextMid]_vars

(***************************************************************************)
(* SpecWin: the duplicate filter on its own.  From a cleared bitmap the    *)
(* peer's mids are presented in generator order, starting anywhere in the  *)
(* cycle; early on, one mid may be presented out of order, which ends the  *)
(* run.  The first accepted mid is followed.                               *)
(***************************************************************************)
InitWin ==
    /\ srvIdle
    /\ mainInit({}, NoBudget)
    /\ getmid = gmid_new
    /\ rxlist = ByteArray32
    /\ s_getmid \in GenStates
    /\ histInit

OppositeByte(k, m) == m \div 8 = ((k \div 8) + 16) % 32

Present(m) ==
    LET r == isnew(m, rxlist) IN
    /\ rxlist' = r.lst
    /\ IF wk = -1
       THEN /\ wk' = IF r.res THEN m ELSE -1
            /\ wcnt' = 0
            /\ wopp' = FALSE
       ELSE /\ wk' = wk
            /\ wcnt' = IF r.res /\ m # wk THEN wcnt + 1 ELSE wcnt
            /\ wopp' = (wopp \/ OppositeByte(wk, m))

WinNext ==
    /\ ~wany
    /\ gidx < MaxWin
    /\ s_getmid' = gmid(s_getmid)
    /\ Present(s_getmid'.mid)
    /\ gidx' = gidx + 1
    /\ UNCHANGED <<srvVars, hc, mainVars, getmid, gprev, wany>>

WinRepeat ==
    /\ ~wany
    /\ wk # -1
    /\ Present(wk)
    /\ UNCHANGED <<srvVars, hc, mainVars, getmid, s_getmid, gidx, gprev, wany>>

WinAny ==
    /\ ~wany
    /\ wk # -1
    /\ wcnt < MaxAnyAt
    /\ \E m \in 0..255 : Present(m)
    /\ wany' = TRUE
    /\ UNCHANGED <<srvVars, hc, mainVars, getmid, s_getmid, gidx, gprev>>

NextWin == WinNext \/ WinRepeat \/ WinAny

SpecWin == InitWin /\ [][NextWin]_vars

(***************************************************************************)
(* SpecQos: application tasks write with qos over a link that may fail.    *)
(***************************************************************************)
InitQos ==
    /\ srvIdle
    /\ mainInit(Writers, [NoBudget EXCEPT !.fail = MaxFail, !.conn = MaxConn,
                                          !.to = MaxTo])
    /\ getmid = gmid_new
    /\ rxlist = ByteArray32
    /\ s_getmid = gmid_new
    /\ histInit

NextQos ==
    \/ \E n \in 1..NW, w \in BOOLEAN : AppWrite(n, TRUE, w)
    \/ \E t \in Writers : Write_call(t)
    \/ \E t \in Writers : Write_proceed(t)
    \/ \E t \in Writers : Write_send(t)
    \/ \E t \in Writers : Write_assert(t)
    \/ \E t \in Writers : Qos_wait(t)
    \/ \E t \in Writers : QosTimeout(t)
    \/ \E t \in Writers : Qos_resend(t)
    \/ \E t \in DOMAIN tk : Reader_step(t)
    \/ \E t \in DOMAIN tk : Ka_step(t)
    \/ \E t \in DOMAIN tk : Task_cancelled(t)
    \/ Run_start
    \/ Run_connect
    \/ Run_handshake
    \/ Run_teardown
    \/ Run_finally
    \/ \E t \in slp : Wake(t)
    \/ LinkFail
    \/ Deliver
    \/ SrvKeepalive

SpecQos == InitQos /\ [][NextQos]_vars

(***************************************************************************)
(* SpecPlain: application tasks write without qos; a send may block.       *)
(***************************************************************************)
InitPlain ==
    /\ srvIdle
    /\ mainInit(Writers, [NoBudget EXCEPT !.fail = MaxFail, !.conn = MaxConn,
                                          !.eagain = MaxEagain])
    /\ getmid = gmid_new
    /\ rxlist = ByteArray32
    /\ s_getmid = gmid_new
    /\ histInit

NextPlain ==
    \/ \E n \in 1..NW : AppWrite(n, FALSE, TRUE)
    \/ \E t \in Writers : Write_call(t)
    \/ \E t \in Writers : Write_send(t)
    \/ \E t \in Writers : Write_assert(t)
    \/ \E t \in DOMAIN tk : Reader_step(t)
    \/ \E t \in DOMAIN tk : Ka_step(t)
    \/ \E t \in DOMAIN tk : Task_cancelled(t)
    \/ Run_start
    \/ Run_connect
    \/ Run_handshake
    \/ Run_teardown
    \/ Run_finally
    \/ \E t \in slp : Wake(t)
    \/ LinkFail
    \/ Deliver
    \/ SrvKeepalive

SpecPlain == InitPlain /\ [][NextPlain]_vars

(***************************************************************************)
(* SpecRx: the peer's application writes, the peer retransmits and may     *)
(* restart; the client's application reads.  The peer's generator has      *)
(* been in use for any length of time when the client is constructed.      *)
(***************************************************************************)
\* the peer's generator when the client is constructed: fresh, or last at
\* one of these mids
SrvStarts ==
    {gmid_new} \cup {[started |-> TRUE, mid |-> m] :
                        m \in {k \in 0..255 : k % 16 = 7} \cup {254, 255}}

InitRx ==
    /\ srvIdle
    /\ mainInit({}, [NoBudget EXCEPT !.conn = MaxConn, !.srv = MaxSrvMsgs,
                                     !.retx = MaxRetx, !.reboot = MaxReboot])
    /\ getmid = gmid_new
    /\ rxlist = ByteArray32
    /\ s_getmid \in SrvStarts
    /\ histInit

NextRx ==
    \/ \E t \in DOMAIN tk : Reader_step(t)
    \/ \E t \in DOMAIN tk : Ack_step(t)
    \/ \E t \in DOMAIN tk : Ka_step(t)
    \/ \E t \in DOMAIN tk : Task_cancelled(t)
    \/ readline
    \/ Run_start
    \/ Run_connect
    \/ Run_handshake
    \/ Run_teardown
    \/ Run_finally
    \/ \E t \in slp : Wake(t)
    \/ Deliver
    \/ SrvWrite
    \/ SrvRetransmit
    \/ SrvKeepalive
    \/ SrvReboot

SpecRx == InitRx /\ [][NextRx]_vars

(***************************************************************************)
(* SpecRun: _run with its reader and keepalive tasks over a network where  *)
(* connecting may fail and the link may fail.  The scheduler runs every    *)
(* ready task and the pause before a new attempt ends.                     *)
(***************************************************************************)
InitRun ==
    /\ srvIdle
    /\ mainInit({}, [NoBudget EXCEPT !.conn = MaxConnRun, !.fail = MaxFail,
                                     !.refuse = MaxRefuse, !.ka = MaxKa])
    /\ getmid = gmid_new
    /\ rxlist = ByteArray32
    /\ s_getmid = gmid_new
    /\ histInit

TaskStep ==
    \/ \E t \in DOMAIN tk : Reader_step(t)
    \/ \E t \in DOMAIN tk : Ka_step(t)
    \/ \E t \in DOMAIN tk : Task_cancelled(t)
    \/ Run_start
    \/ Run_connect
    \/ Run_handshake
    \/ Run_bad_server
    \/ Run_teardown
    \/ Run_finally
    \/ Run_die

NextRun ==
    \/ TaskStep
    \/ \E t \in slp : Wake(t)
    \/ LinkFail
    \/ Deliver
    \/ SrvKeepalive

SpecRun ==
    InitRun /\ [][NextRun]_vars /\ WF_vars(TaskStep) /\ WF_vars(Wake(RUN))

(***************************************************************************)
(* SpecClose: the client runs and the application calls close.             *)
(***************************************************************************)
InitClose ==
    /\ srvIdle
    /\ mainInit({}, [NoBudget EXCEPT !.conn = MaxConn, !.ka = MaxKa,
                                     !.refuse = MaxRefuse, !.ska = MaxSrvKa,
                                     !.close = MaxClose])
    /\ getmid = gmid_new
    /\ rxlist = ByteArray32
    /\ s_getmid = gmid_new
    /\ histInit

NextClose ==
    \/ \E t \in DOMAIN tk : Reader_step(t)
    \/ \E t \in DOMAIN tk : Ka_step(t)
    \/ \E t \in DOMAIN tk : Task_cancelled(t)
    \/ Run_start
    \/ Run_connect
    \/ Run_handshake
    \/ Run_bad_server
    \/ Run_teardown
    \/ Run_finally
    \/ Run_die
    \/ \E t \in slp : Wake(t)
    \/ Deliver
    \/ SrvKeepalive
    \/ Close_call

SpecClose == InitClose /\ [][NextClose]_vars

(***************************************************************************)
(* SpecStatus: an application task awaits the client while the peer sends  *)
(* keepalives, a send may block and the link may fail.                     *)
(***************************************************************************)
InitStatus ==
    /\ srvIdle
    /\ mainInit({AW}, [NoBudget EXCEPT !.conn = MaxConn, !.fail = MaxFail,
                                       !.eagain = MaxEagain, !.ka = MaxKa,
                                       !.refuse = MaxRefuse])
    /\ getmid = gmid_new
    /\ rxlist = ByteArray32
    /\ s_getmid = gmid_new
    /\ histInit

NextStatus ==
    \/ AppAwait
    \/ Await_step
    \/ \E t \in DOMAIN tk : Reader_step(t)
    \/ \E t \in DOMAIN tk : Ka_step(t)
    \/ \E t \in DOMAIN tk : Task_cancelled(t)
    \/ Run_start
    \/ Run_connect
    \/ Run_handshake
    \/ Run_bad_server
    \/ Run_teardown
    \/ Run_finally
    \/ Run_die
    \/ \E t \in slp : Wake(t)
    \/ LinkFail
    \/ Deliver
    \/ SrvKeepalive

SpecStatus == InitStatus /\ [][NextStatus]_vars

(***************************************************************************)
(* SpecInbox: the peer's application writes more lines than the inbox      *)
(* holds; the client's application reads when it pleases.                  *)
(***************************************************************************)
InitInbox ==
    /\ srvIdle
    /\ mainInit({}, [NoBudget EXCEPT !.conn = 1, !.srv = MaxInbox])
    /\ getmid = gmid_new
    /\ rxlist = ByteArray32
    /\ s_getmid = gmid_new
    /\ histInit

NextInbox ==
    \/ \E t \in DOMAIN tk : Reader_step(t)
    \/ \E t \in DOMAIN tk : Ack_step(t)
    \/ \E t \in DOMAIN tk : Ka_step(t)
    \/ \E t \in DOMAIN tk : Task_cancelled(t)
    \/ readline
    \/ Run_start
    \/ Run_connect
    \/ Run_handshake
    \/ Run_teardown
    \/ Run_finally
    \/ \E t \in slp : Wake(t)
    \/ Deliver
    \/ SrvWrite

SpecInbox == InitInbox /\ [][NextInbox]_vars

(***************************************************************************)
(* SpecIdle: the reader under a clock.  The peer sends a keepalive or a    *)
(* line, or nothing, while time passes.                                    *)
(***************************************************************************)
InitIdle ==
    /\ srvIdle
    /\ mainInit({}, [NoBudget EXCEPT !.conn = MaxConn, !.tick = MaxTick,
                                     !.srv = 1])
    /\ getmid = gmid_new
    /\ rxlist = ByteArray32
    /\ s_getmid = gmid_new
    /\ histInit

NextIdle ==
    \/ \E t \in DOMAIN tk : Reader_timed(t)
    \/ \E t \in DOMAIN tk : Ack_step(t)
    \/ \E t \in DOMAIN tk : Ka_step(t)
    \/ \E t \in DOMAIN tk : Task_cancelled(t)
    \/ Run_start
    \/ Run_connect
    \/ Run_handshake
    \/ Run_teardown
    \/ Run_finally
    \/ \E t \in slp : Wake(t)
    \/ Deliver
    \/ SrvWrite
    \/ SrvKeepalive
    \/ Tick

SpecIdle == InitIdle /\ [][NextIdle]_vars

(***************************************************************************)
(* SpecLen: the length of the body in the preheader, as the two write      *)
(* methods declare it and as the two readers use it.  A body is given by   *)
(* its length len and by nl, whether its last byte is a newline; on the    *)
(* wire its bytes are followed by a newline unless nl.                     *)
(***************************************************************************)
Bodies ==
    {[len |-> n, nl |-> b] : n \in 0..MaxBody, b \in BOOLEAN}
        \ {[len |-> 0, nl |-> TRUE]}

\* the bytes of a body on the wire before the newline that ends the frame
Content(body) == body.len - (IF body.nl THEN 1 ELSE 0)

\* Client.write of client.py: preheader[2] and preheader[3].  build says
\* what storing -1 in a bytearray does: "cpython" raises ValueError,
\* "micropython" stores the low byte.
Client_write_len(body, build) ==
    LET b2 == (body.len % 256) - (IF body.nl THEN 1 ELSE 0)
        b3 == (body.len \div 256) % 256
    IN  IF b2 < 0 /\ build = "cpython" THEN [raised |-> TRUE, b2 |-> 0, b3 |-> 0]
        ELSE [raised |-> FALSE, b2 |-> b2 % 256, b3 |-> b3]

\* Connection.write of server.py: preheader[2] and preheader[3]
Connection_write_len(body) ==
    [raised |-> FALSE, b2 |-> body.len % 256, b3 |-> (body.len \div 256) % 256]

Declared(p) == p.b3 * 256 + p.b2

\* Client._readline of client.py with _read_small, reading a frame whose
\* body has c bytes before its newline: it reads as many bytes as the
\* preheader declares and then wants a newline.  o says what the socket
\* gives when the declared length is one more than c: the body with its
\* newline in one piece and then a keepalive ("ka") or the next frame
\* ("frame"), or the newline on its own ("split"), which reads as a
\* keepalive and drops the frame.  The result is the length of the line
\* returned, or -1 when none is (OSError, or the frame is dropped).
Client__readline_len(p, c, o) ==
    LET n == Declared(p)
    IN  IF n = c THEN c
        ELSE IF n = c + 1 /\ o = "ka" THEN c + 1
        ELSE -1

\* Connection._process_str of server.py: the line is what stands between
\* the header and the newline, whatever the preheader declares
Connection_process_len(p, c) == c

LenBecomes(h) == hc' = h /\ UNCHANGED <<cliVars, srvVars>>

InitLen ==
    /\ _conns = <<>> /\ ssock = <<>> /\ stk = <<>> /\ sbud = <<>>
    /\ shist = <<>>
    /\ mainInit({}, NoBudget)
    /\ getmid = gmid_new
    /\ rxlist = ByteArray32
    /\ s_getmid = gmid_new
    /\ histInit
    /\ \E body \in Bodies : hc = [pc |-> "body", body |-> body]

\* both peers write the body
Len_encode(build) ==
    /\ hc.pc = "body"
    /\ LenBecomes([pc |-> "written", body |-> hc.body,
                   cli |-> Client_write_len(hc.body, build),
                   srv |-> Connection_write_len(hc.body)])

\* each peer reads the frame the other has written
Len_decode(o) ==
    /\ hc.pc = "written"
    /\ ~hc.cli.raised
    /\ LenBecomes([hc EXCEPT !.pc = "read"] @@
                  [at_srv |-> Connection_process_len(hc.cli, Content(hc.body)),
                   at_cli |-> Client__readline_len(hc.srv, Content(hc.body),
                                                   o)])

NextLen ==
    \/ \E build \in {"cpython", "micropython"} : Len_encode(build)
    \/ \E o \in {"ka", "frame", "split"} : Len_decode(o)

SpecLen == InitLen /\ [][NextLen]_vars

(***************************************************************************)
(* SpecEmpty: one application task writes with qos while the peer's        *)
(* application writes lines, empty ones among them; nothing fails.         *)
(***************************************************************************)
InitEmpty ==
    /\ srvIdle
    /\ mainInit({W(1)}, [NoBudget EXCEPT !.conn = 1, !.srv = MaxSrvMsgs])
    /\ getmid = gmid_new
    /\ rxlist = ByteArray32
    /\ s_getmid = gmid_new
    /\ histInit

NextEmpty ==
    \/ AppWrite(1, TRUE, TRUE)
    \/ Write_call(W(1))
    \/ Write_send(W(1))
    \/ Qos_wait(W(1))
    \/ \E t \in DOMAIN tk : Reader_step(t)
    \/ \E t \in DOMAIN tk : Ack_step(t)
    \/ \E t \in DOMAIN tk : Ka_step(t)
    \/ readline
    \/ Run_start
    \/ Run_connect
    \/ Run_handshake
    \/ \E t \in slp : Wake(t)
    \/ Deliver
    \/ SrvWrite
    \/ SrvWriteEmpty

SpecEmpty == InitEmpty /\ [][NextEmpty]_vars

(***************************************************************************)
(* SpecWire: application tasks write with qos, the peer writes a line      *)
(* that the client acknowledges, the keepalive comes due; a send may       *)
(* write a part only or would block, the qos wait may time out, and the    *)
(* client reconnects after a failure.                                      *)
(***************************************************************************)
InitWire ==
    /\ srvIdle
    /\ mainInit(Writers,
                [NoBudget EXCEPT !.conn = MaxConn, !.to = MaxTo,
                                 !.ka = MaxKa, !.srv = 1,
                                 !.eagain = MaxEagain,
                                 !.partial = MaxPartial])
    /\ getmid = gmid_new
    /\ rxlist = ByteArray32
    /\ s_getmid = gmid_new
    /\ histInit

NextWire ==
    \/ \E n \in 1..NWire : AppWrite(n, TRUE, FALSE)
    \/ \E t \in Writers : Write_call(t)
    \/ \E t \in Writers : Write_send(t)
    \/ \E t \in Writers : Write_assert(t)
    \/ \E t \in Writers : Qos_wait(t)
    \/ \E t \in Writers : QosTimeout(t)
    \/ \E t \in Writers : Qos_resend(t)
    \/ \E t \in DOMAIN tk : Reader_step(t)
    \/ \E t \in DOMAIN tk : Ack_step(t)
    \/ \E t \in DOMAIN tk : Ka_step(t)
    \/ \E t \in DOMAIN tk : Task_cancelled(t)
    \/ Run_start
    \/ Run_connect
    \/ Run_handshake
    \/ Run_teardown
    \/ Run_finally
    \/ \E t \in slp : Wake(t)
    \/ Deliver
    \/ SrvWrite

SpecWire == InitWire /\ [][NextWire]_vars

(***************************************************************************)
(* SpecFirst: application tasks write without qos while the client         *)
(* connects and reconnects; a send may block, the link may fail and        *)
(* bad_server may return.  Timers expire in the order of their lengths.    *)
(***************************************************************************)
InitFirst ==
    /\ srvIdle
    /\ mainInit(Writers, [NoBudget EXCEPT !.conn = MaxConn, !.fail = MaxFail,
                                          !.eagain = MaxEagain, !.ka = MaxKa])
    /\ getmid = gmid_new
    /\ rxlist = ByteArray32
    /\ s_getmid = gmid_new
    /\ histInit

NextFirst ==
    \/ \E n \in 1..NWire : AppWrite(n, FALSE, FALSE)
    \/ \E t \in Writers : Write_call(t)
    \/ \E t \in Writers : Write_send(t)
    \/ \E t \in Writers : Write_assert(t)
    \/ \E t \in DOMAIN tk : Reader_step(t)
    \/ \E t \in DOMAIN tk : Ka_step(t)
    \/ \E t \in DOMAIN tk : Task_cancelled(t)
    \/ Run_start
    \/ Run_connect
    \/ Run_handshake
    \/ Run_bad_server
    \/ Run_teardown
    \/ Run_finally
    \/ Run_die
    \/ \E t \in slp : Wake_timed(t)
    \/ LinkFail
    \/ Deliver
    \/ SrvKeepalive

SpecFirst == InitFirst /\ [][NextFirst]_vars

(***************************************************************************)
(* SpecPend: application tasks write with and without qos, each waiting    *)
(* for the pending-ACK set to be empty if it writes with qos; the link     *)
(* may fail and the client reconnects.                                     *)
(***************************************************************************)
InitPend ==
    /\ srvIdle
    /\ mainInit(Writers, [NoBudget EXCEPT !.conn = MaxConn, !.fail = MaxFail,
                                          !.to = MaxTo])
    /\ getmid = gmid_new
    /\ rxlist = ByteArray32
    /\ s_getmid = gmid_new
    /\ histInit

NextPend ==
    \/ \E n \in 1..NWire, q \in BOOLEAN : AppWrite(n, q, TRUE)
    \/ \E t \in Writers : Write_call(t)
    \/ \E t \in Writers : Write_proceed(t)
    \/ \E t \in Writers : Write_send(t)
    \/ \E t \in Writers : Write_assert(t)
    \/ \E t \in Writers : Qos_wait(t)
    \/ \E t \in Writers : QosTimeout(t)
    \/ \E t \in Writers : Qos_resend(t)
    \/ \E t \in DOMAIN tk : Reader_step(t)
    \/ \E t \in DOMAIN tk : Ka_step(t)
    \/ \E t \in DOMAIN tk : Task_cancelled(t)
    \/ Run_start
    \/ Run_connect
    \/ Run_handshake
    \/ Run_teardown
    \/ Run_finally
    \/ \E t \in slp : Wake_timed(t)
    \/ LinkFail
    \/ Deliver
    \/ SrvKeepalive

SpecPend == InitPend /\ [][NextPend]_vars

(***************************************************************************)
(* The server of the protocol with a preheader (server.py).  A line is a   *)
(* sequence of characters, without its newline: 0..15 are the hexadecimal  *)
(* digits, every larger number another character.  The first ten           *)
(* characters of a line are its preheader, five bytes in hexadecimal: the  *)
(* mid, the length of the header, the length of the body (low, high) and   *)
(* a byte of flags (1: qos, 0x2C: ACK, 0xFF: handshake of a clean start).  *)
(***************************************************************************)
\* ubinascii.hexlify: two hexadecimal digits for each byte.
hexlify(bs) ==
    [i \in 1..(2 * Len(bs)) |->
        IF i % 2 = 1 THEN bs[(i + 1) \div 2] \div 16 ELSE bs[i \div 2] % 16]

\* ubinascii.unhexlify: the bytes b, or err (ValueError) when the string has
\* an odd length or a character that is no hexadecimal digit.
unhexlify(cs) ==
    IF Len(cs) % 2 = 1 \/ \E i \in 1..Len(cs) : cs[i] > 15
    THEN [err |-> TRUE, b |-> <<>>]
    ELSE [err |-> FALSE,
          b |-> [i \in 1..(Len(cs) \div 2) |-> 16 * cs[2 * i - 1] + cs[2 * i]]]

\* s[a:b] of Python, a and b counted from 0.
Slice(cs, a, b) ==
    SubSeq(cs, a + 1, IF b < Len(cs) THEN b ELSE Len(cs))

IdX == <<30>>
IdY == <<31>>
Ids == {IdX, IdY}

None == 0

\* The mid None of a keepalive, as a member of _acks_pend.
MidNone == -2

SrvCur ==
    [conns |-> _conns, socks |-> ssock, tk |-> stk, bud |-> sbud,
     hist |-> shist]

SrvBecomes(s) ==
    /\ _conns' = s.conns /\ ssock' = s.socks /\ stk' = s.tk
    /\ sbud' = s.bud /\ shist' = s.hist
    /\ UNCHANGED <<cliVars, hc>>

\* The server's tasks: run, the _read and _keepalive tasks of a
\* Connection, the _sendack task of the n-th frame that asked for an ACK,
\* and the application's tasks calling client_conn, readline and write.
SRUN == <<"srun", 0>>
SRD(x) == <<"read", x>>
SKA(x) == <<"keepalive", x>>
SACT(x) == <<"client_active", x>>
SACK(n) == <<"sendack", n>>
CC(n) == <<"client_conn", n>>
RL(n) == <<"readline", n>>
SW(n) == <<"write", n>>

STask(pc, x) ==
    [pc |-> pc, id |-> x, mid |-> -1, qos |-> FALSE, buf |-> <<>>,
     ret |-> <<>>, slept |-> FALSE]

SSpawn(s, t, l) == [s EXCEPT !.tk = (t :> l) @@ @]

\* Connection.status
Connection_status(c) == c._sock # None

\* Connection._close
Connection_close(s, x) ==
    IF s.conns[x]._sock # None
    THEN [s EXCEPT !.socks[s.conns[x]._sock].st = "closed",
                   !.conns[x]._sock = None]
    ELSE s

\* Connection.__init__: the new object enters _conns and its two tasks
\* are created.  obj numbers the objects in the order of their creation.
Connection_init(s, c_sock, x, init_str) ==
    LET c == [obj |-> s.hist.made + 1,
              born |-> c_sock,
              _sock |-> c_sock,
              _newlist |-> ByteArray32,
              _wr_pause |-> TRUE,
              _await_client |-> TRUE,
              _getmid |-> gmid_new,
              _wlock |-> FALSE,
              _lines |-> <<>>,
              _acks_pend |-> {},
              _ack_mid |-> -1,
              _tx_mid |-> -1]
        s1 == [s EXCEPT !.conns = (x :> c) @@ @, !.hist.made = @ + 1]
        s2 == SSpawn(s1, SRD(x), [STask("recv", x) EXCEPT !.buf = init_str])
    IN  SSpawn(s2, SKA(x), [STask("vwrite", x) EXCEPT !.mid = MidNone])

\* Connection._reconnect, as a fresh object would do it
_reconnect_fresh(s, x, c_sock) ==
    [s EXCEPT !.conns[x] = [@ EXCEPT !.obj = s.hist.made + 1,
                                     !._sock = c_sock,
                                     !._wr_pause = TRUE,
                                     !._await_client = TRUE],
              !.hist.made = @ + 1]

\* Connection._reconnect
_reconnect(s, x, c_sock) ==
    [s EXCEPT !.conns[x]._sock = c_sock,
              !.conns[x]._wr_pause = TRUE,
              !.conns[x]._await_client = TRUE]

\* Connection.go without the test of status(): every handshake with a known
\* id gives its Connection the new socket.
Connection_go_rebind(s, data, c_sock) ==
    LET line == data.line
        u == unhexlify(Slice(line, 0, 10))
        client_id == Slice(line, 10, Len(line))
    IN  IF u.err \/ Len(u.b) < 1
        THEN [s EXCEPT !.tk[SRUN].pc = "dead"]
        ELSE IF u.b[1] # 44
        THEN [s EXCEPT !.socks[c_sock].st = "closed"]
        ELSE IF Len(u.b) < 5
        THEN [s EXCEPT !.tk[SRUN].pc = "dead"]
        ELSE IF client_id \in DOMAIN s.conns
        THEN _reconnect(s, client_id, c_sock)
        ELSE Connection_init(s, c_sock, client_id, data.init_str)

\* Connection.go: data is the first line read from the new socket c_sock
\* and what followed it.  An exception of unhexlify (ValueError) or of
\* preheader[0] or preheader[4] (IndexError) leaves go and ends run, the
\* task that called it.
Connection_go(s, data, c_sock) ==
    LET line == data.line
        u == unhexlify(Slice(line, 0, 10))
        preheader == u.b
        client_id == Slice(line, 10, Len(line))
    IN  IF u.err \/ Len(preheader) < 1
        THEN [s EXCEPT !.tk[SRUN].pc = "dead"]
        ELSE IF preheader[1] # 44
        THEN [s EXCEPT !.socks[c_sock].st = "closed"]
        ELSE IF Len(preheader) < 5
        THEN [s EXCEPT !.tk[SRUN].pc = "dead"]
        ELSE IF client_id \in DOMAIN s.conns
        THEN IF Connection_status(s.conns[client_id])
             THEN [s EXCEPT !.socks[c_sock].st = "closed"]
             ELSE _reconnect(s, client_id, c_sock)
        ELSE Connection_init(s, c_sock, client_id, data.init_str)

\* Lines as the client of client.py writes them: a Data frame (write and
\* _write), an ACK (_sendack) and the line of an empty keepalive.
DataLine(mid, header, body, qos) ==
    hexlify(<<mid, Len(header), Len(body) % 256, Len(body) \div 256,
              IF qos THEN 1 ELSE 0>>) \o hexlify(header) \o body

AckLine(mid) == hexlify(<<mid, 0, 0, 0, 44>>)

KaLine == <<>>

\* The mid of a line of the server that asks for an ACK, or -1.
QosMidOf(line) ==
    LET u == unhexlify(Slice(line, 0, 10))
    IN  IF Len(line) >= 10 /\ ~u.err /\ u.b[5] = 1 THEN u.b[1] ELSE -1

\* Connection._client_active, after its pause
_client_active(s, t) ==
    LET x == s.tk[t].id
    IN  [s EXCEPT !.conns[x]._wr_pause = FALSE,
                  !.tk = [u \in DOMAIN @ \ {t} |-> @[u]]]

\* The item Connection._process_str makes of a new frame: the header
\* (<<>> for None) and the line; err when unhexlify raises on the header.
Item(preheader, line) ==
    IF preheader[2] # 0
    THEN LET u == unhexlify(Slice(line, 10, 10 + preheader[2] * 2))
         IN  [err |-> u.err, header |-> u.b,
              line |-> Slice(line, 10 + preheader[2] * 2, Len(line))]
    ELSE [err |-> FALSE, header |-> <<>>, line |-> Slice(line, 10, Len(line))]

\* The calls of write that wait for the ACK of mid on the Connection of x.
Awaiting(s, x, mid) ==
    {t \in DOMAIN s.tk : /\ t[1] = "write" /\ s.tk[t].pc = "ackwait"
                         /\ s.tk[t].id = x /\ s.tk[t].mid = mid}

\* Connection._process_str for the list of one line that _read passes.
\* The list ret of the new frames is local: it is neither returned nor
\* added to _lines.  An exception (unhexlify, or an index beyond a short
\* preheader) leaves _process_str and ends the _read task.
Connection_process_str(s, x, line) ==
    LET u == unhexlify(Slice(line, 0, 10))
        preheader == u.b
        dead == [s EXCEPT !.tk[SRD(x)].pc = "dead"]
    IN  IF u.err \/ Len(preheader) < 5 THEN dead
        ELSE LET mid == preheader[1]
             IN  IF preheader[5] = 44
                 THEN [s EXCEPT !.conns[x]._ack_mid = mid,
                                !.hist.acked = @ \cup Awaiting(s, x, mid)]
                 ELSE
    LET l0 == IF mid = 0 THEN isnew(-1, s.conns[x]._newlist).lst
              ELSE s.conns[x]._newlist
        n  == isnew(mid, l0)
        it == Item(preheader, line)
        s1 == [s EXCEPT !.conns[x]._newlist = n.lst,
                        !.hist.rcv = IF n.res
                                     THEN Append(@, [header |-> it.header,
                                                     line |-> it.line])
                                     ELSE @]
        k  == s.hist.acks + 1
    IN  IF n.res /\ it.err THEN [dead EXCEPT !.conns[x]._newlist = n.lst]
        ELSE IF preheader[5] % 2 = 1
        THEN SSpawn([s1 EXCEPT !.hist.acks = k], SACK(k),
                    [STask("vwrite", x) EXCEPT !.mid = mid,
                                               !.buf = AckLine(mid)])
        ELSE s1

\* Connection._read from one recv to the next, on a connection that has a
\* socket.  o is what recv gives: "line" (the next line the client has sent,
\* or a keepalive), "timeout" (nothing for the timeout), "reset" (OSError)
\* or "eof" (b'').
Connection_read(s, x, o) ==
    LET c  == s.conns[x]
        n  == c._sock
        k  == s.hist.acts + 1
        \* the first item after a (re)start enables writing after a delay
        s1 == IF c._await_client
              THEN SSpawn([s EXCEPT !.conns[x]._await_client = FALSE,
                                    !.hist.acts = k],
                          SACT(k), STask("sleep", x))
              ELSE s
    IN  CASE o \in {"timeout", "reset"} -> Connection_close(s, x)
          [] o = "eof" -> Connection_close(s1, x)
          [] o = "line" ->
              LET d  == Head(s.socks[n].rx)
                  s2 == [s1 EXCEPT !.socks[n].rx = Tail(@)]
              IN  IF d = KaLine THEN s2
                  ELSE Connection_process_str(s2, x, d)

\* _process_str for the lines of a list, in order, while _read lives
RECURSIVE Connection_process_list(_, _, _)
Connection_process_list(s, x, l) ==
    IF l = <<>> \/ s.tk[SRD(x)].pc = "dead" THEN s
    ELSE Connection_process_list(Connection_process_str(s, x, Head(l)), x,
                                 Tail(l))

\* Connection._read from a recv that gives the chunk d to the next recv:
\* d.whole are the pieces of d that end with a newline and d.part is what
\* follows the last newline.  The local istr (the buf of the task) is put
\* before d; what follows the last newline becomes istr, and the lines
\* before it go to _process_str, whose assertion fails when there is none.
\* The task's mid is the socket istr was received on, and hist.stale holds
\* the lines processed that began with bytes of an earlier socket.
Connection_read_chunk(s, x) ==
    LET c  == s.conns[x]
        n  == c._sock
        k  == s.hist.acts + 1
        s1 == IF c._await_client
              THEN SSpawn([s EXCEPT !.conns[x]._await_client = FALSE,
                                    !.hist.acts = k],
                          SACT(k), STask("sleep", x))
              ELSE s
        d  == Head(s.socks[n].rx)
        istr == s.tk[SRD(x)].buf
        old == istr # <<>> /\ s.tk[SRD(x)].mid # n
        s2 == [s1 EXCEPT !.socks[n].rx = Tail(@)]
    IN  IF d.whole = <<>>
        THEN [s2 EXCEPT !.tk[SRD(x)].buf = istr \o d.part,
                        !.tk[SRD(x)].mid = IF istr = <<>> THEN n ELSE @,
                        !.tk[SRD(x)].pc = "dead"]
        ELSE Connection_process_list(
                 [s2 EXCEPT !.tk[SRD(x)].buf = d.part, !.tk[SRD(x)].mid = n,
                            !.hist.stale = IF old
                                           THEN Append(@, istr \o Head(d.whole))
                                           ELSE @],
                 x, <<istr \o Head(d.whole)>> \o Tail(d.whole))

\* What a task does when its call of _vwrite returns: _keepalive pauses,
\* _sendack ends, write returns to the application.
Vwrite_return(s, t) ==
    IF t[1] = "keepalive" THEN [s EXCEPT !.tk[t].pc = "pause"]
    ELSE IF t[1] = "sendack" THEN [s EXCEPT !.tk = [u \in DOMAIN @ \ {t} |-> @[u]]]
    ELSE [s EXCEPT !.tk[t].pc = "done"]

\* Connection._send up to its pause after a complete send, or to its
\* return of False.  o is what socket.send does: "ok", or "err" (OSError).
Connection_send(s, x, d, o) ==
    IF ~Connection_status(s.conns[x]) THEN [s |-> s, ok |-> FALSE]
    ELSE IF o = "ok"
    THEN [s |-> [s EXCEPT !.socks[s.conns[x]._sock].tx = Append(@, d)],
          ok |-> TRUE]
    ELSE [s |-> Connection_close(s, x), ok |-> FALSE]

\* Connection._vwrite from taking the lock to the pause in _send, or to the
\* next round of its inner loop when _send has failed.
_vwrite_send(s, t, o) ==
    LET x == s.tk[t].id
        r == Connection_send(s, x, s.tk[t].buf, o)
    IN  IF r.ok
        THEN [r.s EXCEPT !.conns[x]._wlock = TRUE, !.tk[t].pc = "sent"]
        ELSE r.s

\* Connection._vwrite after _send has returned True: the lock is released,
\* the ticket moves on and the mid is added to the pending ACKs.
_vwrite_sent(s, t) ==
    LET x  == s.tk[t].id
        s1 == [s EXCEPT !.conns[x]._wlock = FALSE,
                        !.conns[x]._tx_mid = @ + 1,
                        !.conns[x]._acks_pend = @ \cup {s.tk[t].mid}]
    IN  IF s.tk[t].qos THEN [s1 EXCEPT !.tk[t].pc = "ackwait"]
        ELSE Vwrite_return(s1, t)

\* Connection._vwrite, qos: the wait for the ACK.  It ends when the mid has
\* left the pending ACKs, or at the timeout with the connection closed.
_vwrite_wait(s, t) ==
    LET x == s.tk[t].id
    IN  IF s.tk[t].mid \notin s.conns[x]._acks_pend
        THEN Vwrite_return(s, t)
        ELSE [Connection_close(s, x) EXCEPT !.tk[t].pc = "backoff",
                                            !.hist.closed = @ \cup {t}]

\* write's arguments: a header (None, a bytearray of one byte, a bytearray
\* of LongHeader bytes, or bytes of another type) and a line of one
\* character (or one longer than 65535).
Args == {"plain", "header", "long_header", "bad_type", "long_line"}

HeaderOf(a) ==
    IF a = "header" THEN <<7>>
    ELSE IF a = "long_header" THEN [i \in 1..LongHeader |-> 0]
    ELSE <<>>

\* Connection.write up to its wait for the ticket.  build says what
\* storing a length above 255 in a bytearray does: "cpython" raises
\* ValueError, "micropython" stores the low byte.
Connection_write(s, t, a, qos, build) ==
    LET x == s.tk[t].id
        g == gmid(s.conns[x]._getmid)
        s1 == [s EXCEPT !.conns[x]._getmid = g]
        header == HeaderOf(a)
        line == <<20 + t[2]>>
        preheader == <<g.mid, Len(header) % 256, Len(line) % 256,
                       Len(line) \div 256, IF qos THEN 1 ELSE 0>>
    IN  IF a \in {"bad_type", "long_line"}
        THEN [s EXCEPT !.tk[t].pc = "raised"]
        ELSE IF Len(header) > 255 /\ build = "cpython"
        THEN [s1 EXCEPT !.tk[t].pc = "raised"]
        ELSE [s1 EXCEPT !.tk[t] = [@ EXCEPT !.pc = "ticket", !.mid = g.mid,
                                     !.qos = qos,
                                     !.buf = hexlify(preheader)
                                             \o hexlify(header) \o line]]

\* Connection._readline: the first buffered item, or (None, None).
Connection__readline(c) ==
    IF c._lines # <<>>
    THEN [c |-> [c EXCEPT !._lines = Tail(@)],
          ret |-> [none |-> FALSE, header |-> Head(c._lines).header,
                   line |-> Head(c._lines).line]]
    ELSE [c |-> c, ret |-> [none |-> TRUE, header |-> <<>>, line |-> <<>>]]

\* Connection.readline: the pair that _readline returns is never None, so
\* readline returns it at once; the loop that waits for data is not reached.
Connection_readline(s, t) ==
    LET x == s.tk[t].id
        r == Connection__readline(s.conns[x])
    IN  [s EXCEPT !.conns[x] = r.c,
                  !.tk[t].pc = "done",
                  !.hist.rets = Append(@, r.ret)]

\* Connection.client_conn, one round of its loop: the Connection of
\* client_id when there is one, else a pause.
Connection_client_conn(s, t) ==
    LET x == s.tk[t].id
    IN  IF x \in DOMAIN s.conns
        THEN [s EXCEPT !.tk[t].pc = "done",
                       !.hist.conn = Append(@, [obj |-> s.conns[x].obj,
                                 status |-> Connection_status(s.conns[x])])]
        ELSE s

(***************************************************************************)
(* The server's steps.  Its tasks pause only in asyncio.sleep, so a step   *)
(* is what a task does from one pause to the next, and the timers decide   *)
(* which task runs next.                                                   *)
(***************************************************************************)
STaskAt(t, pcs) == t \in DOMAIN stk /\ stk[t].pc \in pcs

\* The first lines a new socket can bring: the handshake of client.py for
\* either id, one whose byte 4 is not 0xFF, one whose mid is not 0x2C and
\* one that is not hexadecimal.
HsLine(mid, b4, x) == hexlify(<<mid, 0, Len(x), 0, b4>>) \o x

FirstLines ==
    {HsLine(44, 255, IdX), HsLine(44, 255, IdY), HsLine(44, 0, IdX),
     HsLine(1, 255, IdX), <<16>> \o Tail(HsLine(44, 255, IdX))}

NewSock(line) == [st |-> "open", first |-> line, rx |-> <<>>, tx |-> <<>>]

\* run: a client has connected and _readid has read its first line.
Run_accept(line) ==
    /\ STaskAt(SRUN, {"run"})
    /\ sbud.sock > 0
    /\ line \in sbud.first
    /\ LET s1 == [SrvCur EXCEPT !.socks = Append(@, NewSock(line)),
                                !.bud.sock = @ - 1]
       IN  SrvBecomes(Connection_go(s1, [line |-> line, init_str |-> <<>>],
                                    Len(s1.socks)))

\* run: a client has connected and _readid has raised OSError.
Run_readid_fail ==
    /\ STaskAt(SRUN, {"run"})
    /\ sbud.sock > 0 /\ sbud.noid > 0
    /\ SrvBecomes([SrvCur EXCEPT
           !.socks = Append(@, [NewSock(<<>>) EXCEPT !.st = "closed"]),
           !.bud.sock = @ - 1, !.bud.noid = @ - 1])

\* _read of the Connection of x, one recv.
Read_step(x, o) ==
    /\ STaskAt(SRD(x), {"recv"})
    /\ Connection_status(_conns[x])
    /\ LET k == ssock[_conns[x]._sock]
       IN  IF k.rx # <<>> THEN o = "line"
           ELSE IF k.st = "reset" THEN o \in {"reset", "eof"}
           ELSE o = "timeout" /\ sbud.to > 0
    /\ SrvBecomes(Connection_read(
           [SrvCur EXCEPT !.bud.to = IF o = "timeout" THEN @ - 1 ELSE @],
           x, o))

Client_active(t) ==
    /\ STaskAt(t, {"sleep"})
    /\ SrvBecomes(_client_active(SrvCur, t))

\* _vwrite of task t: the socket is there and the lock is free.
Vwrite_send(t) ==
    /\ STaskAt(t, {"vwrite"})
    /\ stk[t].id \in DOMAIN _conns
    /\ LET c == _conns[stk[t].id]
       IN  /\ Connection_status(c)
           /\ ~c._wlock
           /\ SrvBecomes(_vwrite_send(SrvCur, t,
                  IF ssock[c._sock].st = "open" THEN "ok" ELSE "err"))

Vwrite_sent(t) ==
    /\ STaskAt(t, {"sent"})
    /\ SrvBecomes(_vwrite_sent(SrvCur, t))

Vwrite_wait(t) ==
    /\ STaskAt(t, {"ackwait"})
    /\ SrvBecomes(_vwrite_wait(SrvCur, t))

Vwrite_retry(t) ==
    /\ STaskAt(t, {"backoff"})
    /\ SrvBecomes([SrvCur EXCEPT !.tk[t].pc = "vwrite"])

\* _keepalive after its pause.
Ska_step(x) ==
    /\ STaskAt(SKA(x), {"pause"})
    /\ sbud.ka > 0
    /\ SrvBecomes([SrvCur EXCEPT !.tk[SKA(x)].pc = "vwrite",
                                 !.bud.ka = @ - 1])

\* The application: it has its Connection from client_conn and calls
\* readline and write on it.
ClientConn_step(n) ==
    /\ STaskAt(CC(n), {"call"})
    /\ SrvBecomes(Connection_client_conn(SrvCur, CC(n)))

Readline_call(n) ==
    /\ STaskAt(RL(n), {"idle"})
    /\ STaskAt(CC(1), {"done"})
    /\ SrvBecomes(Connection_readline(SrvCur, RL(n)))

SWrite_call(n, a, qos, build) ==
    /\ STaskAt(SW(n), {"idle"})
    /\ STaskAt(CC(1), {"done"})
    /\ IF n = 1 THEN TRUE ELSE stk[SW(n - 1)].pc # "idle"
    /\ SrvBecomes(Connection_write(SrvCur, SW(n), a, qos, build))

SWrite_ticket(n) ==
    /\ STaskAt(SW(n), {"ticket"})
    /\ _conns[stk[SW(n)].id]._tx_mid + 1 = stk[SW(n)].mid
    /\ SrvBecomes([SrvCur EXCEPT !.tk[SW(n)].pc = "vwrite"])

\* The client of x writes a line to its socket: a Data frame, a keepalive,
\* a line that is not hexadecimal, or the ACK of a frame the server has sent
\* with qos on this socket.
ClientLines ==
    {DataLine(1, <<>>, <<21>>, TRUE), DataLine(1, <<7>>, <<22>>, FALSE),
     DataLine(2, <<>>, <<23>>, FALSE), KaLine,
     <<16>> \o Tail(DataLine(3, <<>>, <<24>>, FALSE))}

ClientAcks(tx) ==
    {AckLine(QosMidOf(tx[i])) : i \in {j \in 1..Len(tx) : QosMidOf(tx[j]) # -1}}

Cli_send(x, lines) ==
    /\ x \in DOMAIN _conns
    /\ Connection_status(_conns[x])
    /\ ssock[_conns[x]._sock].st = "open"
    /\ sbud.data > 0
    /\ \E line \in lines :
         SrvBecomes([SrvCur EXCEPT
             !.socks[_conns[x]._sock].rx = Append(@, line),
             !.bud.data = @ - 1])

\* The client of x acknowledges a frame it has received.
Cli_acks(x) ==
    /\ x \in DOMAIN _conns
    /\ Connection_status(_conns[x])
    /\ Cli_send(x, ClientAcks(ssock[_conns[x]._sock].tx))

\* What one recv can give: a line and the first characters of the next, a
\* line alone, or an incomplete line alone.
Chunks ==
    {[whole |-> <<DataLine(1, <<>>, <<21>>, FALSE)>>,
      part |-> Slice(DataLine(2, <<>>, <<22>>, FALSE), 0, 4)],
     [whole |-> <<DataLine(3, <<>>, <<23>>, FALSE)>>, part |-> <<>>],
     [whole |-> <<>>, part |-> Slice(DataLine(2, <<>>, <<22>>, FALSE), 0, 6)]}

\* The client of x writes and the server's socket receives a chunk.
Cli_chunk(x) ==
    /\ x \in DOMAIN _conns
    /\ Connection_status(_conns[x])
    /\ ssock[_conns[x]._sock].st = "open"
    /\ sbud.data > 0
    /\ \E d \in Chunks :
         SrvBecomes([SrvCur EXCEPT
             !.socks[_conns[x]._sock].rx = Append(@, d),
             !.bud.data = @ - 1])

\* _read receives a chunk.
Read_chunk(x) ==
    /\ STaskAt(SRD(x), {"recv"})
    /\ Connection_status(_conns[x])
    /\ ssock[_conns[x]._sock].rx # <<>>
    /\ SrvBecomes(Connection_read_chunk(SrvCur, x))

\* The connection behind socket n breaks.
Sock_reset(n) ==
    /\ n \in 1..Len(ssock)
    /\ ssock[n].st = "open"
    /\ \E x \in DOMAIN _conns : _conns[x]._sock = n
    /\ sbud.reset > 0
    /\ SrvBecomes([SrvCur EXCEPT !.socks[n].st = "reset",
                                 !.bud.reset = @ - 1])

\* The state when run starts: no client has connected.  apps are the
\* application's tasks, all of them for the client IdX, b the budgets.
srvInit(apps, b) ==
    /\ mainInit({}, NoBudget)
    /\ getmid = gmid_new
    /\ rxlist = ByteArray32
    /\ s_getmid = gmid_new
    /\ histInit
    /\ hc = <<>>
    /\ _conns = <<>>
    /\ ssock = <<>>
    /\ stk = (SRUN :> STask("run", IdX))
             @@ [t \in apps |->
                    STask(IF t[1] = "client_conn" THEN "call" ELSE "idle", IdX)]
    /\ sbud = b
    /\ shist = [made |-> 0, acts |-> 0, acks |-> 0, acked |-> {},
                rcv |-> <<>>, rets |-> <<>>, conn |-> <<>>, closed |-> {},
                stale |-> <<>>]

NoSrvBudget ==
    [first |-> {}, sock |-> 0, noid |-> 0, reset |-> 0, data |-> 0, to |-> 0,
     ka |-> 0]

(***************************************************************************)
(* SpecGo: clients connect, their connections break and they connect       *)
(* again; the application waits for its Connection.                        *)
(***************************************************************************)
InitGo ==
    srvInit({CC(1)}, [NoSrvBudget EXCEPT !.first = FirstLines,
                          !.sock = MaxSock, !.noid = MaxNoId,
                          !.reset = MaxReset])

NextGo ==
    \/ \E line \in FirstLines : Run_accept(line)
    \/ Run_readid_fail
    \/ \E x \in Ids, o \in {"reset", "eof"} : Read_step(x, o)
    \/ \E k \in 1..MaxSock : Client_active(SACT(k))
    \/ \E t \in DOMAIN stk : Vwrite_send(t)
    \/ \E t \in DOMAIN stk : Vwrite_sent(t)
    \/ ClientConn_step(1)
    \/ \E n \in 1..MaxSock : Sock_reset(n)

SpecGo == InitGo /\ [][NextGo]_vars

(***************************************************************************)
(* SpecBadId: sockets whose first line is too short for a preheader or is  *)
(* not hexadecimal arrive between the handshakes of clients.               *)
(***************************************************************************)
\* first lines of fewer than 10 characters: empty, two bytes with and
\* without the mid 0x2C, an odd number of digits; and lines of 10 or more
\* characters with one that is no hexadecimal digit
BadLines ==
    {<<>>, hexlify(<<44, 0>>), hexlify(<<1, 0>>), <<2, 12, 0>>,
     <<16>> \o Tail(HsLine(44, 255, IdX)), <<2, 12, 0, 0, 17, 0, 0, 0, 15, 15>>}

InitBadId ==
    srvInit({CC(1)}, [NoSrvBudget EXCEPT
                          !.first = BadLines \cup {HsLine(44, 255, IdX),
                                                   HsLine(44, 255, IdY)},
                          !.sock = MaxSock, !.noid = MaxNoId,
                          !.reset = MaxReset])

NextBadId ==
    \/ \E line \in BadLines : Run_accept(line)
    \/ \E x \in Ids : Run_accept(HsLine(44, 255, x))
    \/ Run_readid_fail
    \/ \E x \in Ids, o \in {"reset", "eof"} : Read_step(x, o)
    \/ \E k \in 1..MaxSock : Client_active(SACT(k))
    \/ \E t \in DOMAIN stk : Vwrite_send(t)
    \/ \E t \in DOMAIN stk : Vwrite_sent(t)
    \/ ClientConn_step(1)
    \/ \E n \in 1..MaxSock : Sock_reset(n)

SpecBadId == InitBadId /\ [][NextBadId]_vars

(***************************************************************************)
(* SpecPartial: the client IdX connects and writes; what the server        *)
(* receives at a time may end in the middle of a line; the connection      *)
(* breaks and the client connects again.                                   *)
(***************************************************************************)
InitPartial ==
    srvInit({CC(1)},
            [NoSrvBudget EXCEPT !.first = {HsLine(44, 255, IdX)},
                 !.sock = MaxSock, !.reset = MaxReset, !.data = MaxData + 1])

NextPartial ==
    \/ Run_accept(HsLine(44, 255, IdX))
    \/ \E o \in {"reset", "eof"} : Read_step(IdX, o)
    \/ Read_chunk(IdX)
    \/ \E k \in 1..MaxSock : Client_active(SACT(k))
    \/ \E t \in DOMAIN stk : Vwrite_send(t)
    \/ \E t \in DOMAIN stk : Vwrite_sent(t)
    \/ ClientConn_step(1)
    \/ Cli_chunk(IdX)
    \/ \E n \in 1..MaxSock : Sock_reset(n)

SpecPartial == InitPartial /\ [][NextPartial]_vars

(***************************************************************************)
(* SpecSrvRx: the client IdX connects and writes lines to the server; the  *)
(* application calls readline.                                             *)
(***************************************************************************)
InitSrvRx ==
    srvInit({CC(1), RL(1), RL(2)},
            [NoSrvBudget EXCEPT !.first = {HsLine(44, 255, IdX)},
                 !.sock = MaxSock - 1, !.reset = MaxReset, !.data = MaxData,
                 !.to = MaxSrvTo])

NextSrvRx ==
    \/ \E line \in FirstLines : Run_accept(line)
    \/ \E o \in {"line", "timeout", "reset", "eof"} : Read_step(IdX, o)
    \/ \E k \in 1..MaxSock : Client_active(SACT(k))
    \/ \E t \in DOMAIN stk : Vwrite_send(t)
    \/ \E t \in DOMAIN stk : Vwrite_sent(t)
    \/ ClientConn_step(1)
    \/ \E n \in 1..2 : Readline_call(n)
    \/ Cli_send(IdX, ClientLines)
    \/ \E n \in 1..MaxSock : Sock_reset(n)

SpecSrvRx == InitSrvRx /\ [][NextSrvRx]_vars

(***************************************************************************)
(* SpecSrvTx: the client IdX connects, the application calls write on its  *)
(* Connection and the client acknowledges what it receives.                *)
(***************************************************************************)
InitSrvTx ==
    srvInit({CC(1)} \cup {SW(n) : n \in 1..NSW},
            [NoSrvBudget EXCEPT !.first = {HsLine(44, 255, IdX)},
                 !.sock = MaxSock - 1, !.data = MaxData - 1])

NextSrvTx ==
    \/ \E line \in FirstLines : Run_accept(line)
    \/ Read_step(IdX, "line")
    \/ \E t \in DOMAIN stk : Vwrite_send(t)
    \/ \E t \in DOMAIN stk : Vwrite_sent(t)
    \/ \E t \in DOMAIN stk : Vwrite_wait(t)
    \/ \E t \in DOMAIN stk : Vwrite_retry(t)
    \/ ClientConn_step(1)
    \/ \E n \in 1..NSW, a \in Args, qos \in BOOLEAN,
          build \in {"cpython", "micropython"} : SWrite_call(n, a, qos, build)
    \/ \E n \in 1..NSW : SWrite_ticket(n)
    \/ \E k \in 1..MaxSock : Client_active(SACT(k))
    \/ Cli_acks(IdX)

SpecSrvTx == InitSrvTx /\ [][NextSrvTx]_vars

(***************************************************************************)
(* The write call of the client of the protocol with a preheader           *)
(* (client.py), on a connection that stays up: hc holds the generator of   *)
(* mids, the ticket _tx_mid, _ok, the pending ACKs, the send lock, the     *)
(* lines written to the socket and the tasks that call write.              *)
(***************************************************************************)
HW(n) == <<"hwrite", n>>

HcBecomes(h) == hc' = h /\ UNCHANGED <<cliVars, srvVars>>

\* Client.write up to its wait for the ticket.  A line longer than 65535
\* raises before a mid is drawn; a header that is no bytearray raises after
\* it; the length of a header is stored in a byte without a test.
Hc_write(h, t, a, qos) ==
    LET g == gmid(h.getmid)
        header == HeaderOf(a)
        buf == <<20 + t[2]>>
        preheader == <<g.mid, Len(header) % 256, Len(buf) % 256,
                       Len(buf) \div 256, IF qos THEN 1 ELSE 0>>
    IN  IF a = "long_line" THEN [h EXCEPT !.tk[t].pc = "raised"]
        ELSE IF a = "bad_type"
        THEN [h EXCEPT !.getmid = g, !.tk[t].pc = "raised"]
        ELSE [h EXCEPT !.getmid = g,
                       !.tk[t] = [pc |-> "ticket", mid |-> g.mid, qos |-> qos,
                                  repeat |-> FALSE,
                                  buf |-> hexlify(preheader)
                                          \o hexlify(header) \o buf]]

\* Client._write from taking the lock to its pause after the sends.
Hc__write_send(h, t) ==
    [h EXCEPT !._s_lock = TRUE,
              !._acks_pend = IF h.tk[t].qos THEN @ \cup {h.tk[t].mid} ELSE @,
              !.wire = Append(@, h.tk[t].buf),
              !.tk[t].pc = "sent"]

\* The ticket after a write: _tx_mid + 1, and 1 after 255.
NextTicket(m) == IF m + 1 = 256 THEN 1 ELSE m + 1

\* Client._write after the sends: the lock is released, the ticket moves
\* on unless this was a repeat, and a qos write waits for its ACK.
Hc__write_sent(h, t) ==
    LET h1 == [h EXCEPT !._s_lock = FALSE,
                        !._tx_mid = IF ~h.tk[t].repeat /\ h._mcw
                                    THEN NextTicket(@) ELSE @,
                        !.tk[t].repeat = TRUE]
    IN  [h1 EXCEPT !.tk[t].pc = IF h.tk[t].qos THEN "ackwait" ELSE "done"]

\* Client._write, qos: the wait for the ACK has ended.
Hc__write_wait(h, t) ==
    IF h.tk[t].mid \in h._acks_pend
    THEN [h EXCEPT !.tk[t].pc = "send", !.bud.to = @ - 1]
    ELSE [h EXCEPT !._tx_mid = IF h._mcw THEN @ ELSE NextTicket(@),
                   !.tk[t].pc = "done"]

HcAt(n, pcs) == hc.tk[HW(n)].pc \in pcs

HcWrite_call(n, a, qos) ==
    /\ HcAt(n, {"idle"})
    /\ IF n = 1 THEN TRUE ELSE ~HcAt(n - 1, {"idle"})
    /\ HcBecomes(Hc_write(hc, HW(n), a, qos))

HcWrite_ticket(n) ==
    /\ HcAt(n, {"ticket"})
    /\ hc._tx_mid = hc.tk[HW(n)].mid /\ hc._ok
    /\ HcBecomes([hc EXCEPT !.tk[HW(n)].pc = "send"])

HcWrite_send(n) ==
    /\ HcAt(n, {"send"})
    /\ hc._ok /\ ~hc._s_lock
    /\ HcBecomes(Hc__write_send(hc, HW(n)))

HcWrite_sent(n) ==
    /\ HcAt(n, {"sent"})
    /\ HcBecomes(Hc__write_sent(hc, HW(n)))

\* The wait ends when the mid has left the pending ACKs, or at the timeout.
HcWrite_wait(n) ==
    /\ HcAt(n, {"ackwait"})
    /\ hc.tk[HW(n)].mid \in hc._acks_pend => hc.bud.to > 0
    /\ HcBecomes(Hc__write_wait(hc, HW(n)))

\* _reader receives the server's ACK of a frame that asked for one.
HcReader_ack(m) ==
    /\ m \in hc._acks_pend
    /\ \E i \in 1..Len(hc.wire) : QosMidOf(hc.wire[i]) = m
    /\ HcBecomes([hc EXCEPT !._acks_pend = @ \ {m}])

(***************************************************************************)
(* SpecHc: NHW tasks call write, one after the other, with good and bad    *)
(* arguments; the server acknowledges, and MaxHcTo waits time out.         *)
(***************************************************************************)
InitHc ==
    /\ mainInit({}, NoBudget)
    /\ getmid = gmid_new
    /\ rxlist = ByteArray32
    /\ s_getmid = gmid_new
    /\ histInit
    /\ _conns = <<>> /\ ssock = <<>> /\ stk = <<>> /\ sbud = <<>>
    /\ shist = <<>>
    /\ hc = [getmid |-> gmid_new, _tx_mid |-> 0, _ok |-> TRUE,
             _acks_pend |-> {}, _s_lock |-> FALSE, _mcw |-> TRUE,
             wire |-> <<>>, bud |-> [to |-> MaxHcTo],
             tk |-> [t \in {HW(n) : n \in 1..NHW} |->
                       [pc |-> "idle", mid |-> -1, qos |-> FALSE,
                        repeat |-> FALSE, buf |-> <<>>]]]

NextHc ==
    \/ \E n \in 1..NHW, a \in Args, qos \in BOOLEAN : HcWrite_call(n, a, qos)
    \/ \E n \in 1..NHW : HcWrite_ticket(n)
    \/ \E n \in 1..NHW : HcWrite_send(n)
    \/ \E n \in 1..NHW : HcWrite_sent(n)
    \/ \E n \in 1..NHW : HcWrite_wait(n)
    \/ \E m \in 0..255 : HcReader_ack(m)

SpecHc == InitHc /\ [][NextHc]_vars

(***************************************************************************)
(* SpecOrder: the client was made with in_order True or False; NHW tasks   *)
(* call write with valid arguments, with and without qos.                  *)
(***************************************************************************)
InitOrder ==
    /\ mainInit({}, NoBudget)
    /\ getmid = gmid_new
    /\ rxlist = ByteArray32
    /\ s_getmid = gmid_new
    /\ histInit
    /\ _conns = <<>> /\ ssock = <<>> /\ stk = <<>> /\ sbud = <<>>
    /\ shist = <<>>
    /\ \E in_order \in BOOLEAN :
          hc = [getmid |-> gmid_new, _tx_mid |-> 0, _ok |-> TRUE,
                _acks_pend |-> {}, _s_lock |-> FALSE, _mcw |-> ~in_order,
                wire |-> <<>>, bud |-> [to |-> MaxHcTo],
                tk |-> [t \in {HW(n) : n \in 1..NHW} |->
                          [pc |-> "idle", mid |-> -1, qos |-> FALSE,
                           repeat |-> FALSE, buf |-> <<>>]]]

NextOrder ==
    \/ \E n \in 1..NHW, a \in {"plain", "header"}, qos \in BOOLEAN :
          HcWrite_call(n, a, qos)
    \/ \E n \in 1..NHW : HcWrite_ticket(n)
    \/ \E n \in 1..NHW : HcWrite_send(n)
    \/ \E n \in 1..NHW : HcWrite_sent(n)
    \/ \E n \in 1..NHW : HcWrite_wait(n)
    \/ \E m \in 0..255 : HcReader_ack(m)

SpecOrder == InitOrder /\ [][NextOrder]_vars

(***************************************************************************)
(* Claims about the generator and the duplicate filter.                    *)
(***************************************************************************)
Rejected(k) == ~isnew(k, rxlist).res

\* C8: gmid yields 0 as its first value and then 1, 2, ..., 255, 1, 2, ...
\* cyclically: 0 only at index 0, every later value in 1..255 and the
\* successor of the previous one, 255 being followed by 1.
C8_GmidSequence ==
    /\ (gidx = 0 => ~getmid.started)
    /\ (gidx = 1 => getmid.mid = 0 /\ gprev = -1)
    /\ (gidx > 1 => /\ getmid.mid \in 1..255
                    /\ getmid.mid = IF gprev = 255 THEN 1 ELSE gprev + 1)

C8_Witness == gidx > 256 /\ gprev = 255 /\ getmid.mid = 1

\* C7 as stated: once isnew(k) has returned True, isnew(k) returns False
\* while fewer than 128 distinct other mids have been accepted since.
C7_Window128 == (wk # -1 /\ wcnt < 128) => Rejected(wk)

\* C7 amended: once isnew(k) has returned True, isnew(k) returns False
\* until a mid of the byte 16 ahead of k's byte (cyclically) is presented;
\* for mids presented in generator order this covers at least the next 119
\* distinct accepted mids.
C7_WindowAmended ==
    wk # -1 =>
        /\ (~wopp => Rejected(wk))
        /\ (~wany /\ wcnt < 120 => Rejected(wk))

C7_Witness == wk # -1 /\ ~wany /\ wopp /\ wcnt = 120 /\ ~Rejected(wk)


(***************************************************************************)
(* Claims about write with qos.                                            *)
(***************************************************************************)
\* the write call of task w has drawn its mid and has not returned
InFlight(w) == tk[w].pc \notin {"idle", "write", "w_empty", "done", "crashed"}

Ordered(w) == tk[w].qos /\ tk[w].wait

\* C5: of the concurrent calls write(qos=True, wait=True), at most one at a
\* time has its mid in the pending set and is between adding the mid and
\* returning: no call adds its mid while another call's mid is pending.
C5_OneAwaitingAck ==
    \A v, w \in Writers :
        (/\ v # w
         /\ Ordered(v) /\ Ordered(w)
         /\ InFlight(v) /\ InFlight(w)
         /\ ASetByte_contains(acks_ba, tk[v].mid))
        => ~ASetByte_contains(acks_ba, tk[w].mid)

\* C4: the peer's application reads the bodies of calls write(qos=True,
\* wait=True) in the order in which the calls were made.
C4_InOrder ==
    \A i, j \in 1..Len(s_lines) :
        (/\ i < j
         /\ Ordered(W(s_lines[i])) /\ Ordered(W(s_lines[j])))
        => s_lines[i] <= s_lines[j]

\* how often the peer's application has been handed body b
Delivered(b) == Cardinality({i \in 1..Len(s_lines) : s_lines[i] = b})

\* C1: the peer's application observes the body of a write with qos exactly
\* once: never twice, and once by the time the call has returned.
C1_ExactlyOnce ==
    \A w \in Writers :
        tk[w].qos => /\ Delivered(w[2]) <= 1
                     /\ tk[w].pc = "done" => Delivered(w[2]) = 1

\* C2: a call write(qos=True) that has returned had its mid discarded from
\* the pending set by an ACK the reader handled while the mid was pending,
\* and the mid is not in the set.
C2_ReturnsAfterAck ==
    \A w \in Writers :
        (tk[w].qos /\ tk[w].pc = "done")
        => /\ w \in ackd
           /\ ~ASetByte_contains(acks_ba, tk[w].mid)

C2_Witness ==
    /\ \A w \in Writers : tk[w].qos /\ tk[w].pc = "done" /\ w \in ackd
    /\ bud.to = 0
    /\ bud.fail = 0

\* C10: the peer's application receives the body of a write without qos at
\* most once.
C10_AtMostOnce ==
    \A w \in Writers : ~tk[w].qos => Delivered(w[2]) <= 1


(***************************************************************************)
(* Claims about the reader.                                                *)
(***************************************************************************)
\* C3: readline returns bodies of Data frames only, and the body of a frame
\* that the peer sends again directly after the original is returned at
\* most once.
C3_ReturnedOnce ==
    /\ \A i \in 1..Len(got) : got[i] \in 1..cnt.srv
    /\ \A b \in 1..cnt.srv : Cardinality({i \in 1..Len(got) : got[i] = b}) <= 1

\* the position in rxmids of the latest Data frame with mid 0 (0: none)
LastZero ==
    LET z == {i \in 1..Len(rxmids) : rxmids[i] = 0}
    IN  IF z = {} THEN 0 ELSE CHOOSE i \in z : \A k \in z : k <= i

SinceZero == {rxmids[i] : i \in (LastZero + 1)..Len(rxmids)}

OnlyBit(m) ==
    [j \in 0..31 |-> IF j = m \div 8 THEN Pow2(m % 8) ELSE 0]

\* C9: once the reader has handled a Data frame with mid 0, every mid in
\* 1..255 that has not arrived since is accepted as new, whatever had been
\* recorded before; right after the frame the filter holds mid 0 alone.
C9_ZeroClears ==
    LastZero > 0 =>
        /\ \A j \in (1..255) \ SinceZero : isnew(j, rxlist).res
        /\ LastZero = Len(rxmids) => rxlist = OnlyBit(0)

C9_Witness ==
    /\ Len(rxmids) = 2
    /\ rxmids[1] = 200
    /\ rxmids[2] = 0
    /\ isnew(200, rxlist).res

(***************************************************************************)
(* Claims about _run.                                                      *)
(***************************************************************************)
RunEnded == tk[RUN].pc \in {"badsrv", "dying", "dead"}

\* the first attempt has got as far as a session, or is over
FirstDone == cnt.conn > 1 \/ tk[RUN].pc \in {"active", "td"}
             \/ (cnt.conn = 1 /\ ~tk[RUN].init /\ ~RunEnded)

GoStep == Len(ssock') = Len(ssock) + 1 /\ ssock'[Len(ssock')].first # <<>>

\* The step is Connection.go for a handshake with the id x.
Handshake(x) == GoStep /\ ssock'[Len(ssock')].first = HsLine(44, 255, x)

\* C11: once _conns has a Connection for an id it keeps that object for
\* ever, and a handshake with the id of a Connection that has failed gives
\* that object the new socket and creates no Connection.
C11_SameObject ==
    [][\A x \in DOMAIN _conns :
          /\ x \in DOMAIN _conns'
          /\ _conns'[x].obj = _conns[x].obj
          /\ (Handshake(x) /\ ~Connection_status(_conns[x]))
                => /\ _conns'[x]._sock = Len(ssock')
                   /\ shist'.made = shist.made
                   /\ DOMAIN _conns' = DOMAIN _conns]_vars

\* A Connection holds a socket other than the one it was created with.
C11_Witness ==
    \E x \in DOMAIN _conns : _conns[x]._sock \notin {None, _conns[x].born}


\* C12: a handshake with the id of a Connection whose status() is true
\* closes the new socket and changes nothing else: not that Connection
\* (socket, buffers, pending state), no task and no other socket.
C12_DuplicateIgnored ==
    [][\A x \in DOMAIN _conns :
          (Handshake(x) /\ Connection_status(_conns[x]))
             => /\ ssock'[Len(ssock')].st = "closed"
                /\ _conns' = _conns
                /\ stk' = stk
                /\ \A n \in 1..Len(ssock) : ssock'[n] = ssock[n]]_vars

\* A later socket with the id of a live Connection has been closed.
C12_Witness ==
    \E x \in DOMAIN _conns : \E n \in 1..Len(ssock) :
        /\ Connection_status(_conns[x])
        /\ _conns[x]._sock < n
        /\ ssock[n].first = HsLine(44, 255, x)
        /\ ssock[n].st = "closed"

\* The line is a handshake: a preheader with mid 0x2C and byte 4 0xFF.
ValidHandshake(line) ==
    LET u == unhexlify(Slice(line, 0, 10))
    IN  ~u.err /\ Len(u.b) = 5 /\ u.b[1] = 44 /\ u.b[5] = 255

\* C17: a socket whose first line is not a handshake (mid 0x2C, byte 4
\* 0xFF) has been closed, and no Connection was created with it or holds it.
C17_OnlyHandshake ==
    \A n \in 1..Len(ssock) :
        ValidHandshake(ssock[n].first)
        \/ /\ ssock[n].st = "closed"
           /\ \A x \in DOMAIN _conns :
                 _conns[x].born # n /\ _conns[x]._sock # n

\* C20: whenever client_conn has returned a Connection, the status() of
\* that Connection was true at the return.
C20_ReturnsActive ==
    \A i \in 1..Len(shist.conn) : shist.conn[i].status

(***************************************************************************)
(* Claims about what a server Connection receives.                         *)
(***************************************************************************)
\* The items in the line buffer of the Connection of x.
Buffered(x) == {_conns[x]._lines[i] : i \in 1..Len(_conns[x]._lines)}

\* The items readline has returned.
Returned ==
    {[header |-> shist.rets[i].header, line |-> shist.rets[i].line] :
        i \in {j \in 1..Len(shist.rets) : ~shist.rets[j].none}}

\* C13: every Data frame the Connection has received and found new is in
\* its line buffer, unless readline has already returned it with its
\* header and body.
C13_NewFrameBuffered ==
    \A i \in 1..Len(shist.rcv) :
        shist.rcv[i] \in Buffered(IdX) \cup Returned

\* C16: the _read task of a Connection does not end, whatever lines the
\* client sends.
C16_ReaderSurvives ==
    \A x \in DOMAIN _conns : stk[SRD(x)].pc # "dead"

\* C19: readline never returns without a line: each of its results is a
\* line the Connection has received.
C19_ReadlineReturnsLine ==
    \A i \in 1..Len(shist.rets) :
        /\ ~shist.rets[i].none
        /\ \E j \in 1..Len(shist.rcv) : shist.rcv[j].line = shist.rets[i].line

(***************************************************************************)
(* Claims about Connection.write.                                          *)
(***************************************************************************)
\* C14: a call of write with qos whose ACK has arrived while it waited has
\* its mid out of the pending ACKs and goes on to return: it does not close
\* the connection and does not send its frame again.
C14_AckEndsWrite ==
    \A t \in shist.acked :
        /\ stk[t].mid \notin _conns[stk[t].id]._acks_pend
        /\ stk[t].pc \in {"ackwait", "done"}
        /\ t \notin shist.closed

\* C15, for Connection.write of server.py: a call of write that raises for
\* its arguments changes neither the Connection (generator of mids, pending
\* ACKs, ticket) nor any socket.
C15_ServerRejectedWriteNoEffect ==
    [][\A n \in 1..NSW :
          (SW(n) \in DOMAIN stk /\ stk[SW(n)].pc = "idle"
             /\ stk'[SW(n)].pc = "raised")
          => _conns' = _conns /\ ssock' = ssock]_vars

\* C15: a call of Client.write that raises for its arguments draws no mid,
\* leaves the pending ACKs and the ticket as they were and writes nothing
\* to the socket.
C15_RejectedWriteNoEffect ==
    [][\A n \in 1..NHW :
          (HcAt(n, {"idle"}) /\ hc'.tk[HW(n)].pc = "raised")
          => /\ hc'.getmid = hc.getmid
             /\ hc'._acks_pend = hc._acks_pend
             /\ hc'._tx_mid = hc._tx_mid
             /\ hc'.wire = hc.wire]_vars

(***************************************************************************)
(* Claims about Client.close.                                              *)
(***************************************************************************)
\* C18: once close has been called the client makes no connection attempt
\* and creates no reader or keepalive task.
C18_CloseEndsEngine ==
    [][cnt.close > 0
         => (cnt'.conn = cnt.conn /\ DOMAIN tk' \subseteq DOMAIN tk)]_vars

(***************************************************************************)
(* Claims about the client's status, its counters and its inbox.           *)
(***************************************************************************)
\* the task awaiting the client resumes in this step
AwaitCompletes ==
    /\ AW \in DOMAIN tk
    /\ tk[AW].pc # "connected"
    /\ tk'[AW].pc = "connected"

\* status() is true although no line was read on the current connection or
\* _run has handled a failure of it
StaleStatus == evok /\ (cnt.seen # cnt.conn \/ cnt.handled = cnt.conn)

\* C21: status() is true only while a complete line has been read on the
\* current connection and _run has handled no failure of that connection,
\* and awaiting the client completes only while status() is true.
C21_StatusAndAwait == [][~StaleStatus' /\ (AwaitCompletes => evok)]_vars

\* C22: connects never decreases, and it increases by exactly one for each
\* connection on which the engine becomes active (a first line is read),
\* at the latest by the time _run has closed that connection.
C22_ConnectsCountsActive ==
    [][/\ connects' \in {connects, connects + 1}
       /\ connects' <= cnt'.active
       /\ (cnt'.handled = cnt'.conn => connects' = cnt'.active)]_vars

\* the reader meets QueueFull in this step
Overflow == cnt'.full # cnt.full

Readers == {t \in DOMAIN tk : t[1] = "rd"}

\* C23: the inbox never holds more than 20 lines; a new Data frame arriving
\* at a full inbox makes the reader set the failure event and end, the
\* inbox staying full, and whenever the failure event is set during a
\* session _run is scheduled to tear the session down.
C23_InboxBounded ==
    [][/\ Len(lineq') <= QSize
       /\ (Overflow => /\ Len(lineq') = QSize
                       /\ evfail'
                       /\ Readers' = {})
       /\ (evfail' /\ tk'[RUN].pc = "active" => InSeq(RUN, runq'))]_vars

C23_Witness ==
    /\ cnt.full = 1
    /\ Len(lineq) = QSize
    /\ cnt.handled = cnt.conn
    /\ sock = "closed"
    /\ Readers = {}

(***************************************************************************)
(* Claims about what the server sends after a connect.                     *)
(***************************************************************************)
\* the write of application task n sends its Data frame in this step
SendsData(n) ==
    /\ SW(n) \in DOMAIN stk
    /\ stk[SW(n)].pc = "vwrite"
    /\ stk'[SW(n)].pc = "sent"

\* C24: a Connection sends an application Data frame only when, since the
\* latest connect or reconnect, the first bytes of the client have arrived
\* and _client_active has cleared _wr_pause.
C24_NoDataWhilePaused ==
    [][\A n \in 1..NSW :
          SendsData(n) => /\ ~_conns[stk[SW(n)].id]._wr_pause
                          /\ ~_conns[stk[SW(n)].id]._await_client]_vars

\* C25: the reader signals failure at its first look at an empty socket
\* after no byte has arrived for the deadline - twice the timeout in the
\* first session after start-up, the timeout in every later session - and
\* it never signals a timeout before the timeout has passed without a byte.
C25_InactivityDeadline ==
    /\ \A t \in Readers :
          tk[t].polled <= (IF t[2] = 1 THEN 2 * Timeout ELSE Timeout)
    /\ (cnt.expired = 0 \/ cnt.expired > Timeout)

(***************************************************************************)
(* Claims about the length of the body in the preheader.                   *)
(***************************************************************************)
\* C26: for every body, the length each write declares in preheader bytes
\* 2 and 3 is stored without error, equals the number of bytes of the body
\* before the newline that ends the frame and is the same in client and
\* server, and the reader of the other peer returns a line of that length.
C26_DeclaredLength ==
    /\ hc.pc \in {"written", "read"} =>
          /\ ~hc.cli.raised
          /\ Declared(hc.cli) = Content(hc.body)
          /\ Declared(hc.srv) = Content(hc.body)
          /\ Declared(hc.cli) = Declared(hc.srv)
    /\ hc.pc = "read" =>
          /\ hc.at_srv = Content(hc.body)
          /\ hc.at_cli = Content(hc.body)

(***************************************************************************)
(* Claims about the reader's handling of frames.                           *)
(***************************************************************************)
\* C27: the reader handles no Data frame as an ACK: a Data frame with an
\* empty body is acknowledged and enqueued like any other, and discards
\* nothing from the pending ACKs.
C27_EmptyBodyIsData == cnt.asack = 0

\* how often the body b has been put into the inbox
Enqueued(b) ==
    Cardinality({i \in 1..Len(got) : got[i] = b})
        + Cardinality({i \in 1..Len(lineq) : lineq[i] = b})

\* C28: the reader creates one _sendack task for every Data frame it
\* handles, new or duplicate, carrying the mid of that frame, and a body
\* the peer has written is put into the inbox at most once however often
\* its frame arrives.
C28_OneAckPerFrame ==
    /\ cnt.ack = Len(rxmids)
    /\ \A n \in 1..cnt.ack :
          ACK(n) \in DOMAIN tk => tk[ACK(n)].mid = rxmids[n]
    /\ \A b \in 1..cnt.srv : Enqueued(b) <= 1

\* C29: no task writes bytes to the socket while the frame of another
\* task is partly written and its send has not failed, and whoever has a
\* frame partly written holds the send lock.
C29_NoInterleaving ==
    /\ ~cnt.mixed
    /\ cnt.inframe # FREE => s_lock = cnt.inframe

\* the frame of one writer is partly written and the writer pauses, while
\* another writer and the task of an ACK wait for the lock
C29_Witness ==
    /\ cnt.inframe = W(1)
    /\ W(1) \in slp
    /\ InSeq(W(2), wq.lock)
    /\ InSeq(ACK(1), wq.lock)

\* _run closes the socket of the session
Disconnects == sock = "open" /\ sock' = "closed" /\ cnt'.close = cnt.close

SessionTasks == {t \in DOMAIN tk : t[1] \in {"rd", "ka"}}

\* C30: when _run closes the socket no reader or keepalive task is left,
\* a reader or keepalive task of an earlier session never exists while the
\* socket of a later session is open, and there is at most one reader.
C30_TasksEndWithSession ==
    [][/\ Disconnects => SessionTasks' = {}
       /\ \A t \in SessionTasks' : sock' = "open" => t[2] = cnt'.conn
       /\ Cardinality(Readers') <= 1]_vars

\* C31: on every connection the first bytes written to the socket are those
\* of the client id: no other task writes before _run has begun to send it.
C31_HandshakeFirst == ~cnt.early

AckTasks == {t \in DOMAIN tk : t[1] = "ack"}

BadFirst(line) == Len(line) < 10 \/ unhexlify(Slice(line, 0, 10)).err

\* run has accepted a socket and read its first line
Accepted ==
    /\ Len(ssock') = Len(ssock) + 1
    /\ sbud'.noid = sbud.noid

\* C33: when the first line of an accepted socket is shorter than 10
\* characters or not hexadecimal, the socket is closed, no Connection is
\* created or given the socket, and run goes on accepting.
C33_BadHandshakeRejected ==
    [][Accepted /\ BadFirst(ssock'[Len(ssock')].first)
          => /\ ssock'[Len(ssock')].st = "closed"
             /\ _conns' = _conns
             /\ stk'[SRUN].pc = "run"]_vars

\* the duplicate filter of the reader holds the mid m
Recorded(m) == TestBit(rxlist[m \div 8], m % 8)

\* C34: every frame the reader has handled whose ACK has been written or
\* whose mid is in the duplicate filter has been put into the inbox (the
\* peer writes body n in its n-th frame, and on one connection without
\* loss that is the n-th frame the reader handles).
C34_AckedIsReadable ==
    \A n \in 1..Len(rxmids) :
        (n \in cnt.acks \/ Recorded(rxmids[n])) => Enqueued(n) >= 1

\* C35: when no line is on its way to the client, every mid in the
\* pending-ACK set is the mid of a write that has not returned, so a write
\* with qos that waits for the empty set is not kept waiting by a write
\* that has returned.
C35_PendingOnlyWaiting ==
    (s2c = <<>> /\ rxbuf = <<>>) =>
        \A m \in 0..255 :
            ASetByte_contains(acks_ba, m) =>
                \E w \in Writers : /\ tk[w].mid = m
                                   /\ tk[w].pc \notin {"idle", "done"}

\* C36: the ticket never passes a write that waits for its turn: _tx_mid
\* only grows, so a write whose mid is below _tx_mid + 1 waits for ever.
C36_TicketReachesWrite ==
    \A n \in 1..NSW :
        STaskAt(SW(n), {"ticket"}) =>
            _conns[stk[SW(n)].id]._tx_mid + 1 <= stk[SW(n)].mid

\* C37: when every write that was called has returned, the ticket _tx_mid
\* is the mid the next write will draw; and with in_order at most one mid
\* awaits its ACK.
C37_TicketIsNextMid ==
    /\ ((\A n \in 1..NHW : HcAt(n, {"idle", "done"})) /\ HcAt(1, {"done"}))
          => hc._tx_mid = gmid(hc.getmid).mid
    /\ ~hc._mcw => Cardinality(hc._acks_pend) <= 1

\* C38: no line the server processes begins with bytes that were received
\* on an earlier socket of the Connection.
C38_NoStaleBytes == shist.stale = <<>>

\* C39: the assertion of Client._write never fails: no writer that yielded
\* after a failed _send resumes with _evok set.
C39_WriteAssertionHolds == \A w \in Writers : tk[w].pc # "crashed"

\* C40: the 'empty' event of the pending-ACK set is set exactly when the set
\* has no member, and no task is left waiting in has_not(i) for a discard
\* when i is not in the set, however many tasks wait.
C40_SetEvents ==
    /\ eve <=> ~ASetByte_bool(acks_ba)
    /\ \A t \in Writers :
          InSeq(t, wq.evdis) => ASetByte_contains(acks_ba, tk[t].mid)

C40_Witness ==
    \E a, b, c \in Writers :
        /\ a # b
        /\ InSeq(a, wq.evdis)
        /\ InSeq(b, wq.evdis)
        /\ tk[c].qos /\ tk[c].pc = "done" /\ c \in ackd
        /\ ~ASetByte_contains(acks_ba, tk[c].mid)
        /\ ~eve

====
